---- MODULE Spec2Model ----
(***************************************************************************)
(* OLI (Overlay Legal Intelligence) browser extension.                     *)
(*                                                                         *)
(* The state machines modelled, each with its own specification:           *)
(*   SpecAnon   the redaction engine  (extension/src/lib/anonymizer.ts)    *)
(*   Spec       the injected content script: fragment locator and          *)
(*              annotation engine     (content.js, unnamed/part_003)       *)
(*   SpecPanel  the side-panel controller driving the content script       *)
(*              (extension/src/App.tsx)                                    *)
(*   SpecScanner the DOM scanner      (extension/src/lib/dom-scanner.ts)   *)
(*   SpecBadge  the content script under scroll and resize of the window   *)
(*   SpecTooltip the horizontal position of the tooltip (showTooltip)      *)
(*   SpecGeometry the content script on a page with a field without box    *)
(*   SpecHost   the content script on a page using the class oli-badge     *)
(*   SpecLocator the content script on pages with a count field and with   *)
(*              a search box                                               *)
(*   SpecSession the panel with a client of the redaction engine           *)
(*   SpecSnapshot the DOM scanner taking the text blocks of a page         *)
(*   SpecDebounce the debounced form listeners of the DOM scanner, under   *)
(*              weak fairness of the timer                                 *)
(*   SpecLoading the loading state of the side panel (scanPage, analyzePDF)*)
(*   SpecPdf    the PDF handler       (extension/src/lib/pdf-handler.ts)   *)
(***************************************************************************)
EXTENDS Integers, Sequences, FiniteSets, TLC

VARIABLES
    \* ---- redaction engine (DataAnonymizer) ----
    tokenMap,       \* token -> [original, type, token]
    reverseMap,     \* original -> token
    tokenCounter,   \* number of tokens issued in this session
    anonOut,        \* argument and result of the last anonymizeObject call
    anonLog         \* session history of createToken: [original, type, token] of every call

anonVars == <<tokenMap, reverseMap, tokenCounter, anonOut, anonLog>>

VARIABLES
    \* ---- the page and the content script (content.js) ----
    nodes,                  \* the document below <body>
    highlightedElements,    \* the decoration registry
    tooltipElement,         \* the tooltip element (0: null)
    headStyles,             \* ids of the <style> elements the script added to <head>
    timers,                 \* pending setTimeout callbacks of the content script
    scrolled,               \* the element window.scrollTo was last aimed at
    listeners,              \* the event listeners the script has registered and not removed
    viewport,               \* the window: its scroll offset and its inner width
    response,               \* the last sendResponse value
    request,                \* the last message the listener received
    log                     \* the actions of the messages received, oldest first

csVars == <<nodes, highlightedElements, tooltipElement, headStyles, timers, scrolled, listeners,
           viewport, response, request, log>>

VARIABLES
    \* ---- the side panel (App.tsx) ----
    loading,        \* the loading flag of the panel
    result,         \* the analysis result shown (present = FALSE: null)
    error,          \* an error message is shown
    currentPdfUrl,  \* a PDF is the subject of the analysis (FALSE: null)
    injected,       \* content.js has run in the tab (window.__OLI_CONTENT_LOADED__)
    onMessageListeners, \* listeners the tab has on chrome.runtime.onMessage
    pc,             \* the asynchronous handler waiting for the backend: "idle", "scanPage", "analyzePDF"
    sent,           \* the body of the last request to the backend
    outbox,         \* messages to the tab that wait for their 300 ms timer
    cycles          \* analysis cycles started

panelVars == <<loading, result, error, currentPdfUrl, injected, onMessageListeners, pc, sent,
              outbox, cycles>>

VARIABLES
    \* ---- the DOM scanner (dom-scanner.ts) ----
    mutationObserver,   \* the MutationObserver is connected (FALSE: null or disconnected)
    formListeners,      \* the 'input' and 'change' listeners are registered on the document
    debounceTimeout,    \* the pending timer of debounce() (NoTimeout: none pending)
    domChanges,         \* 'oli-dom-change' events dispatched since the current burst began
    fieldChanges,       \* 'oli-field-change' events dispatched
    burst,              \* qualifying mutations delivered since the current burst began
    windowLeft,         \* what is left of the debounce window the burst opened, in 100 ms
    awaited,            \* the fields with an 'input' event that no 'oli-field-change' has followed
    inputEvents         \* 'input' events the document has received

scannerVars == <<mutationObserver, formListeners, debounceTimeout, domChanges, fieldChanges,
                burst, windowLeft, awaited, inputEvents>>

VARIABLES
    \* ---- the position of the tooltip (showTooltip, content.js) ----
    innerWidth,     \* window.innerWidth, in pixels
    tipRect,        \* element.getBoundingClientRect() of the last target: [left, width], in pixels
    offsetWidth,    \* tooltipElement.offsetWidth at the last call, in pixels (0: not laid out)
    tipStyle        \* the tooltip's style: [visible, left], left in half pixels

tooltipVars == <<innerWidth, tipRect, offsetWidth, tipStyle>>

VARIABLES
    \* ---- the scan snapshot (DOMScanner.scanCurrentPage) ----
    textBlocks      \* textBlocks of the last ScanResult (<<>>: no scan yet)

snapshotVars == <<textBlocks>>

VARIABLES
    \* ---- the loading message of the side panel (App.tsx) ----
    loadingMessage,     \* the message shown while loading ("": none)
    progressTimers      \* pending setTimeout(() => setLoadingMessage(...)) calls: [left, message]

loadingVars == <<loadingMessage, progressTimers>>

VARIABLES
    \* ---- the PDF handler (pdf-handler.ts) ----
    pdfCall         \* the last extraction: the method, what getDocument did, the document and the result

pdfVars == <<pdfCall>>

\* the components that stay idle while another one is exercised
restVars == <<scannerVars, tooltipVars, snapshotVars, loadingVars, pdfVars>>

vars == <<anonVars, csVars, panelVars, restVars>>

(***************************************************************************)
(* Generic helpers                                                         *)
(***************************************************************************)
Range(f) == {f[x] : x \in DOMAIN f}

SeqsUpTo(S, n) == UNION {[1..k -> S] : k \in 0..n}

(***************************************************************************)
(* Strings of the page and of the findings are sequences of characters,    *)
(* so that includes(), trim(), the regular expressions of the locator and  *)
(* the search variants are computed character by character.                *)
(***************************************************************************)
NBSP == "nbsp"                      \* U+00A0

IsWs(c) == c \in {" ", NBSP}        \* \s
IsDigit(c) == c \in {"0", "1", "2", "3", "4", "5", "6", "7", "8", "9"}   \* \d

\* String.prototype.includes
Includes(s, t) ==
    \/ t = <<>>
    \/ \E i \in 1..(Len(s) - Len(t) + 1) : SubSeq(s, i, i + Len(t) - 1) = t

\* String.prototype.indexOf from position `from` (1-based); 0 when absent
IndexFrom(s, t, from) ==
    LET hits == {i \in from..(Len(s) - Len(t) + 1) : SubSeq(s, i, i + Len(t) - 1) = t}
    IN  IF hits = {} THEN 0 ELSE CHOOSE i \in hits : \A j \in hits : i <= j

LastIndexOf(s, c) ==
    LET hits == {i \in 1..Len(s) : s[i] = c}
    IN  IF hits = {} THEN 0 ELSE CHOOSE i \in hits : \A j \in hits : i >= j

\* String.prototype.trim
RECURSIVE TrimLeft(_)
TrimLeft(s) == IF s # <<>> /\ IsWs(s[1]) THEN TrimLeft(Tail(s)) ELSE s

RECURSIVE TrimRight(_)
TrimRight(s) ==
    IF s # <<>> /\ IsWs(s[Len(s)]) THEN TrimRight(SubSeq(s, 1, Len(s) - 1)) ELSE s

Trim(s) == TrimRight(TrimLeft(s))

\* s.replace(/\s+/g, ' ')
RECURSIVE CollapseWs(_)
CollapseWs(s) ==
    IF s = <<>> THEN <<>>
    ELSE IF IsWs(s[1])
         THEN <<" ">> \o CollapseWs(TrimLeft(s))
         ELSE <<s[1]>> \o CollapseWs(Tail(s))

\* s.replace(/\s+/g, '')
StripWs(s) == SelectSeq(s, LAMBDA c : ~IsWs(c))

\* s.replace(/\s/g, ' ')
NbspWs(s) == [i \in 1..Len(s) |-> IF IsWs(s[i]) THEN NBSP ELSE s[i]]

\* s.replace(/\s*:\s*/g, ' : ')
RECURSIVE NormalizeColons(_)
NormalizeColons(s) ==
    IF s = <<>> THEN <<>>
    ELSE LET rest == TrimLeft(s)      \* s without its leading white space
         IN  IF rest # <<>> /\ rest[1] = ":"
             THEN <<" ", ":", " ">> \o NormalizeColons(TrimLeft(Tail(rest)))
             ELSE <<s[1]>> \o NormalizeColons(Tail(s))

\* String.prototype.toLowerCase, for the letters the pages and findings use
LowerChar(c) ==
    CASE c = "F" -> "f"
      [] c = "B" -> "b"
      [] c = "T" -> "t"
      [] OTHER -> c

ToLower(s) == [i \in 1..Len(s) |-> LowerChar(s[i])]

\* s.split(sep), sep non-empty: the parts between the occurrences of sep
RECURSIVE Split(_, _)
Split(s, sep) ==
    LET i == IndexFrom(s, sep, 1)
    IN  IF i = 0 THEN <<s>>
        ELSE <<SubSeq(s, 1, i - 1)>> \o Split(SubSeq(s, i + Len(sep), Len(s)), sep)

\* first index of the maximal run of [\d\s] characters that ends at j
RECURSIVE RunStart(_, _)
RunStart(s, j) ==
    IF j > 1 /\ (IsDigit(s[j - 1]) \/ IsWs(s[j - 1])) THEN RunStart(s, j - 1) ELSE j

\* text.match(/[\d\s]+\s*\$/): <<>> when there is no match, else match[0]
MoneyMatch(s) ==
    LET ends == {p \in 2..Len(s) : s[p] = "$" /\ (IsDigit(s[p - 1]) \/ IsWs(s[p - 1]))}
    IN  IF ends = {} THEN <<>>
        ELSE LET p == CHOOSE q \in ends : \A r \in ends : q <= r
             IN  SubSeq(s, RunStart(s, p - 1), p)

\* text.match(/\d{4}-\d{2}-\d{2}/): <<>> when there is no match, else match[0]
DateMatch(s) ==
    LET ok(i) == /\ \A k \in {0, 1, 2, 3, 5, 6, 8, 9} : IsDigit(s[i + k])
                 /\ s[i + 4] = "-" /\ s[i + 7] = "-"
        hits == {i \in 1..(Len(s) - 9) : ok(i)}
    IN  IF hits = {} THEN <<>>
        ELSE LET i == CHOOSE q \in hits : \A r \in hits : q <= r
             IN  SubSeq(s, i, i + 9)

\* extractKeyValue(text)
extractKeyValue(text) ==
    IF MoneyMatch(text) # <<>> THEN Trim(MoneyMatch(text))
    ELSE IF DateMatch(text) # <<>> THEN DateMatch(text)
    ELSE IF Includes(text, <<":">>)
         THEN Trim(SubSeq(text, LastIndexOf(text, ":") + 1, Len(text)))
    ELSE text

\* searchText.match(/Field \[(.*?)\]:/), then labelMatch[1].trim();
\* <<>> stands for "no target label" (null, or a label that is empty)
S_FieldOpen == <<"F", "i", "e", "l", "d", " ", "[">>

TargetLabel(searchText) ==
    LET i == IndexFrom(searchText, S_FieldOpen, 1)
        j == IF i = 0 THEN 0 ELSE IndexFrom(searchText, <<"]", ":">>, i + Len(S_FieldOpen))
    IN  IF i = 0 \/ j = 0 THEN <<>>
        ELSE Trim(SubSeq(searchText, i + Len(S_FieldOpen), j - 1))

(***************************************************************************)
(* THE PAGE                                                                *)
(*                                                                         *)
(* The document is a heap of nodes: `nodes` is a sequence of node records, *)
(* a node is named by its index, node Body is document.body.  Nodes made   *)
(* during a handler are appended; when a handler ends, Canon renumbers the *)
(* attached nodes in document order and drops the detached ones, so that   *)
(* two documents with the same structure are the same value.               *)
(***************************************************************************)
Body == 1
Detached == 0          \* a reference to a node that is no longer in the document

\* the inline style properties the script reads or writes
StyleProps ==
    {"outline", "outline-offset", "background", "border-radius", "transition",
     "position", "animation", "box-shadow", "transform", "top", "left", "display"}

NoProps ==
    "outline" :> "" @@ "outline-offset" :> "" @@ "background" :> "" @@
    "border-radius" :> "" @@ "transition" :> "" @@ "position" :> "" @@
    "animation" :> "" @@ "box-shadow" :> "" @@ "transform" :> "" @@
    "top" :> "" @@ "left" :> "" @@ "display" :> ""

\* a style attribute value: the host's own declarations (base, opaque and
\* ending with a semicolon) followed by the properties the script has set
EmptyStyle == [base |-> "", props |-> NoProps]

\* style.top and style.left as numbers of pixels (set = FALSE: not set)
NoPos == [set |-> FALSE, top |-> 0, left |-> 0]

BlankNode ==
    [kind |-> "elem", tag |-> "", parent |-> 0, kids |-> <<>>, text |-> <<>>, at |-> NoPos,
     id |-> <<>>, name |-> <<>>, type |-> "", value |-> <<>>, htmlFor |-> <<>>,
     hasClass |-> FALSE, classes |-> <<>>,
     hasStyle |-> FALSE, style |-> EmptyStyle,
     data |-> {}, dStatus |-> "", dMessage |-> "", dOriginal |-> <<>>,
     dOrigStyle |-> EmptyStyle, dFor |-> <<>>]

TextNode(parent, text) ==
    [BlankNode EXCEPT !.kind = "text", !.parent = parent, !.text = text]

HasClass(n, c) == \E i \in 1..Len(n.classes) : n.classes[i] = c

\* [class*="sub"]: the class attribute contains the substring
ClassContains(n, sub) ==
    \E i \in 1..Len(n.classes) :
        CASE sub = "highlight" -> n.classes[i] \in {"oli-highlight", "oli-focus-highlight",
                                                     "highlight-danger", "highlight-warning",
                                                     "highlight-info", "highlight-success"}
          [] sub = "field"     -> n.classes[i] \in {"field"}
          [] sub = "value"     -> n.classes[i] \in {"value"}
          [] sub = "amount"    -> n.classes[i] \in {"amount"}
          [] OTHER             -> FALSE     \* "row", "price", "balance": no class of the pages

\* classList.add(c)
ClassAdd(n, c) ==
    IF HasClass(n, c) THEN n
    ELSE [n EXCEPT !.hasClass = TRUE, !.classes = @ \o <<c>>]

\* classList.remove(c): the attribute stays, possibly empty
ClassRemove(n, c) ==
    IF HasClass(n, c)
    THEN [n EXCEPT !.classes = SelectSeq(@, LAMBDA x : x # c)]
    ELSE n

\* element.style.<prop> = v  (v = "" removes the property; an absent style
\* attribute is created only by a non-empty value)
StyleSet(n, prop, v) ==
    IF ~n.hasStyle /\ v = "" THEN n
    ELSE [n EXCEPT !.hasStyle = TRUE, !.style.props[prop] = v]

\* document order (pre-order) of the subtree of node r
RECURSIVE Order(_, _)
RECURSIVE OrderKids(_, _)
Order(ns, r) == <<r>> \o OrderKids(ns, ns[r].kids)
OrderKids(ns, kids) ==
    IF kids = <<>> THEN <<>> ELSE Order(ns, Head(kids)) \o OrderKids(ns, Tail(kids))

\* the nodes of the document, in document order
DocOrder(ns) == Order(ns, Body)

Attached(ns, x) == \E i \in 1..Len(DocOrder(ns)) : DocOrder(ns)[i] = x

\* the CSS selectors the script uses, by name
Matches(sel, ns, x) ==
    LET n == ns[x]
    IN  /\ n.kind = "elem"
        /\ CASE sel = "input, select, textarea" -> n.tag \in {"INPUT", "SELECT", "TEXTAREA"}
             [] sel = "label" -> n.tag = "LABEL"
             [] sel = ".form-group, .field, .col" ->
                    HasClass(n, "form-group") \/ HasClass(n, "field") \/ HasClass(n, "col")
             [] sel = "field containers" ->      \* .field, .form-group, tr, [class*="row"], [class*="field"]
                    \/ HasClass(n, "field") \/ HasClass(n, "form-group") \/ n.tag = "TR"
                    \/ ClassContains(n, "row") \/ ClassContains(n, "field")
             [] sel = "value elements" ->        \* .value, .form-control, td:last-child, [class*="value"]
                    \/ HasClass(n, "value") \/ HasClass(n, "form-control")
                    \/ (n.tag = "TD" /\ n.parent # 0 /\
                        LET els == SelectSeq(ns[n.parent].kids, LAMBDA k : ns[k].kind = "elem")
                        IN  els[Len(els)] = x)
                    \/ ClassContains(n, "value")
             [] sel = "highlighted" ->           \* .highlight-danger, ..., [class*="highlight"]
                    ClassContains(n, "highlight")
             [] sel = "td, th" -> n.tag \in {"TD", "TH"}
             [] sel = "amounts" ->               \* .amount, [class*="amount"], [class*="price"], [class*="balance"]
                    \/ HasClass(n, "amount") \/ ClassContains(n, "amount")
                    \/ ClassContains(n, "price") \/ ClassContains(n, "balance")
             [] sel = ".oli-focus-highlight" -> HasClass(n, "oli-focus-highlight")
             [] sel = ".oli-highlight" -> HasClass(n, "oli-highlight")
             [] sel = ".oli-badge" -> HasClass(n, "oli-badge")
             [] sel = "data containers" ->       \* .section, .field, .data-row, [data-field], .form-group, dl, .info-block
                    \/ HasClass(n, "section") \/ HasClass(n, "field") \/ HasClass(n, "data-row")
                    \/ HasClass(n, "form-group") \/ n.tag = "DL" \/ HasClass(n, "info-block")
             [] sel = "dl" -> n.tag = "DL"
             [] sel = "dt" -> n.tag = "DT"
             [] sel = "dd" -> n.tag = "DD"
             [] OTHER -> FALSE

\* querySelectorAll(sel) over a list of nodes given in document order
SelectAll(sel, ns, order) == SelectSeq(order, LAMBDA x : Matches(sel, ns, x))

First(seq) == IF seq = <<>> THEN 0 ELSE seq[1]

\* the descendants of r in document order (querySelector scope)
Descendants(ns, r) == Tail(Order(ns, r))

\* Node.textContent
RECURSIVE ConcatText(_, _)
ConcatText(ns, order) ==
    IF order = <<>> THEN <<>>
    ELSE (IF ns[Head(order)].kind = "text" THEN ns[Head(order)].text ELSE <<>>)
         \o ConcatText(ns, Tail(order))

textContent(ns, r) == ConcatText(ns, Order(ns, r))

\* x and its ancestors, nearest first
RECURSIVE SelfAndAncestors(_, _)
SelfAndAncestors(ns, x) ==
    IF x = 0 THEN <<>> ELSE <<x>> \o SelfAndAncestors(ns, ns[x].parent)

\* element.closest(sel): the nearest ancestor-or-self that matches, or 0
Closest(sel, ns, x) == First(SelectAll(sel, ns, SelfAndAncestors(ns, x)))

\* appendChild / replaceChild / remove
AppendChild(ns, parent, child) ==
    [ns EXCEPT ![parent].kids = @ \o <<child>>, ![child].parent = parent]

RECURSIVE Substitute(_, _, _)
Substitute(kids, new, old) ==
    IF kids = <<>> THEN <<>>
    ELSE <<IF Head(kids) = old THEN new ELSE Head(kids)>> \o Substitute(Tail(kids), new, old)

ReplaceChild(ns, new, old) ==
    LET p == ns[old].parent
    IN  [ns EXCEPT ![p].kids = Substitute(ns[p].kids, new, old),
                   ![new].parent = p,
                   ![old].parent = 0]

RemoveNode(ns, x) ==
    LET p == ns[x].parent
    IN  IF p = 0 THEN ns
        ELSE [ns EXCEPT ![p].kids = SelectSeq(@, LAMBDA k : k # x), ![x].parent = 0]

(***************************************************************************)
(* THE CONTENT SCRIPT (content.js)                                         *)
(*                                                                         *)
(* Its operations are functions of a world record w:                       *)
(*   w.nodes    the document                                               *)
(*   w.hl       highlightedElements, the decoration registry               *)
(*   w.tip      tooltipElement (0: null)                                   *)
(*   w.head     the ids of the <style> elements the script put in <head>   *)
(*   w.timers   the pending setTimeout callbacks, in creation order        *)
(*              (shown: the callback that set a hide timer showed the      *)
(*              tooltip)                                                   *)
(*   w.scrolled the element window.scrollTo was last aimed at (0: none)    *)
(*   w.ls       the event listeners registered, in registration order      *)
(*   w.view     the window: [scrollY, innerWidth]                          *)
(***************************************************************************)
Statuses == {"CRITIQUE", "AVERTISSEMENT", "CONFORME"}

\* STATUS_COLORS[status] || STATUS_COLORS.CRITIQUE
colorsOf(status) == IF status \in Statuses THEN status ELSE "CRITIQUE"

\* the badge's text: '!' critical, '?' warning, a check mark otherwise
badgeText(status) ==
    CASE status = "CRITIQUE" -> <<"!">>
      [] status = "AVERTISSEMENT" -> <<"?">>
      [] OTHER -> <<"v">>

\* setTimeout delays, in units of 500 ms
TooltipDelay == 1       \* 500 ms
UnfocusDelay == 4       \* 2000 ms
HideDelay == 6          \* 3000 ms

Alloc(ns, rec) == ns \o <<rec>>
NewId(ns) == Len(ns) + 1

\* target.addEventListener(type, handler): the handler is a closure made by
\* this call, so no earlier registration is the same listener. A listener of
\* the window keeps the element and the badge its handler closes over.
addEventListener(ls, onWindow, target, type, badge) ==
    ls \o <<[onWindow |-> onWindow, target |-> target, type |-> type, badge |-> badge]>>

\* the hover listeners of an element
hoverListeners(ls, el) ==
    addEventListener(addEventListener(ls, FALSE, el, "mouseenter", 0), FALSE, el, "mouseleave", 0)

createTooltip(w) ==
    IF w.tip # 0 THEN w
    ELSE LET t == NewId(w.nodes)
             n == [BlankNode EXCEPT !.tag = "DIV", !.id = <<"oli-tooltip">>,
                                    !.hasStyle = TRUE,
                                    !.style = [base |-> "tooltip", props |-> NoProps]]
         IN  [w EXCEPT !.nodes = AppendChild(Alloc(w.nodes, n), Body, t), !.tip = t]

\* getBoundingClientRect() has a non-zero size: the element is in the document
\* and neither it nor an ancestor is display: none
HasBox(w, el) ==
    /\ el # Detached
    /\ Attached(w.nodes, el)
    /\ \A a \in Range(SelfAndAncestors(w.nodes, el)) : w.nodes[a].style.props["display"] # "none"

\* showTooltip(element, content, status)
showTooltip(w, el, content, status) ==
    LET w1 == createTooltip(w)
    IN  IF ~HasBox(w1, el) THEN w1
        ELSE [w1 EXCEPT !.nodes[w1.tip] =
                 [@ EXCEPT !.dStatus = status, !.dMessage = content,
                           !.style.props = [@ EXCEPT !["display"] = "block",
                                                     !["left"] = "px", !["top"] = "px",
                                                     !["transform"] = "translateY(0)"],
                           !.style.base = "tooltip visible"]]

\* hideTooltip()
hideTooltip(w) ==
    IF w.tip = 0 THEN w
    ELSE [w EXCEPT !.nodes[w.tip] =
             [@ EXCEPT !.style.base = "tooltip",
                       !.style.props["transform"] = "translateY(8px)"]]

\* one iteration of the forEach of cleanupHighlights
cleanupOne(ns, el) ==
    IF el = Detached THEN ns        \* nothing of the element is left in the document
    ELSE IF ns[el].parent # 0 /\ ns[el].dOriginal # <<>>
    THEN LET t == NewId(ns)
         IN  ReplaceChild(Alloc(ns, TextNode(0, ns[el].dOriginal)), t, el)
    ELSE [ns EXCEPT ![el] =
            LET n == ClassRemove(ClassRemove(@, "oli-highlight"), "oli-focus-highlight")
            IN  [n EXCEPT !.hasStyle = ("oliOriginalStyle" \in n.data),
                          !.style = IF "oliOriginalStyle" \in n.data
                                    THEN n.dOrigStyle ELSE EmptyStyle,
                          !.data = @ \ {"oliStatus", "oliMessage", "oliOriginalStyle",
                                        "oliBadgeCreated", "oliMouseEnter", "oliMouseLeave"},
                          !.dStatus = "", !.dMessage = "", !.dOrigStyle = EmptyStyle]]

RECURSIVE cleanupEach(_, _)
cleanupEach(ns, els) ==
    IF els = <<>> THEN ns ELSE cleanupEach(cleanupOne(ns, Head(els)), Tail(els))

\* a removal of badges that leaves the badges of the body where they are
RECURSIVE MutRemoveAll(_, _)
MutRemoveAll(ns, els) ==
    IF els = <<>> THEN ns
    ELSE MutRemoveAll(IF ns[Head(els)].parent = Body THEN ns ELSE RemoveNode(ns, Head(els)),
                      Tail(els))

RECURSIVE RemoveAll(_, _)
RemoveAll(ns, els) ==
    IF els = <<>> THEN ns ELSE RemoveAll(RemoveNode(ns, Head(els)), Tail(els))

\* cleanupHighlights()
cleanupHighlights(w) ==
    LET ns1 == cleanupEach(w.nodes, w.hl)
        ns2 == RemoveAll(ns1, SelectAll(".oli-badge", ns1, DocOrder(ns1)))
    IN  [w EXCEPT !.nodes = ns2, !.hl = <<>>]

\* scrollToAndPulse(element, colors)
scrollToAndPulse(w, el) ==
    [w EXCEPT !.head = @ \cup {"oli-focus-styles"},
              !.nodes[el] = ClassAdd(@, "oli-focus-highlight"),
              !.scrolled = el,
              !.timers = @ \o <<[kind |-> "tooltip", el |-> el, badge |-> 0,
                                 left |-> TooltipDelay, shown |-> FALSE],
                                [kind |-> "unfocus", el |-> el, badge |-> 0,
                                 left |-> UnfocusDelay, shown |-> FALSE]>>]

\* the layout of the page: the fields are stacked, one row each, and reach to
\* the right margin of the window
RowHeight == 40
FieldHeight == 24
RightMargin == 20
BadgeOffset == 12

\* the fields before x in document order
RECURSIVE FieldsBefore(_, _, _)
FieldsBefore(ns, order, x) ==
    IF order = <<>> \/ Head(order) = x THEN 0
    ELSE (IF ns[Head(order)].kind = "elem"
             /\ ns[Head(order)].tag \in {"INPUT", "SELECT", "TEXTAREA"} THEN 1 ELSE 0)
         + FieldsBefore(ns, Tail(order), x)

\* element.getBoundingClientRect(): relative to the viewport, all zero for an
\* element that is not in the document
getBoundingClientRect(w, el) ==
    IF ~HasBox(w, el) THEN [top |-> 0, right |-> 0, width |-> 0, height |-> 0]
    ELSE [top |-> RowHeight * (1 + FieldsBefore(w.nodes, DocOrder(w.nodes), el)) - w.view.scrollY,
          right |-> w.view.innerWidth - RightMargin,
          width |-> w.view.innerWidth - 2 * RightMargin,
          height |-> FieldHeight]

\* where updateBadgePosition puts the badge of an element with that box
BadgePos(rect) == [set |-> TRUE, top |-> rect.top - BadgeOffset, left |-> rect.right - BadgeOffset]

\* an updateBadgePosition that positions the badge whatever the box is
MutUpdateBadgePositionAt(w, badge, rect) ==
    [w EXCEPT !.nodes[badge] =
        [StyleSet(StyleSet(StyleSet(@, "top", "px"), "left", "px"), "display", "flex")
            EXCEPT !.at = BadgePos(rect)]]

\* updateBadgePosition(): the closure of one badge and its element
updateBadgePositionAt(w, badge, rect) ==
    IF rect.width > 0 /\ rect.height > 0
    THEN [w EXCEPT !.nodes[badge] =
             [StyleSet(StyleSet(StyleSet(@, "top", "px"), "left", "px"), "display", "flex")
                 EXCEPT !.at = BadgePos(rect)]]
    ELSE [w EXCEPT !.nodes[badge] = StyleSet(@, "display", "none")]

\* a badge that has left the document has no part in the model any more
updateBadgePosition(w, el, badge) ==
    IF badge = Detached THEN w
    ELSE updateBadgePositionAt(w, badge, getBoundingClientRect(w, el))

\* the window dispatches an event: its listeners of that type run in the
\* order of their registration
RECURSIVE dispatch(_, _, _)
dispatch(w, ls, type) ==
    IF ls = <<>> THEN w
    ELSE dispatch(IF Head(ls).onWindow /\ Head(ls).type = type
                  THEN updateBadgePosition(w, Head(ls).target, Head(ls).badge)
                  ELSE w,
                  Tail(ls), type)

\* window.addEventListener('scroll', scrollHandler, true) and ('resize', scrollHandler)
windowListeners(ls, el, badge) ==
    addEventListener(addEventListener(ls, TRUE, el, "scroll", badge), TRUE, el, "resize", badge)

\* the tags highlightExistingElement treats as unable to hold a child
VoidTags ==
    {"IMG", "INPUT", "BR", "HR", "AREA", "BASE", "BASEFONT", "COL", "LINK",
     "META", "PARAM", "SELECT", "TEXTAREA"}

\* element.id || element.name || ''
IdOrName(n) == IF n.id # <<>> THEN n.id ELSE n.name

\* a new badge element with its text
BadgeNode(status) ==
    [BlankNode EXCEPT !.tag = "SPAN", !.hasClass = TRUE, !.classes = <<"oli-badge">>,
                      !.hasStyle = TRUE,
                      !.style = [base |-> "badge", props |-> NoProps],
                      !.dStatus = colorsOf(status)]

\* highlightExistingElement(element, status, message, colors, scrollAndPulse)
highlightExistingElement(w, el, status, message, scrollAndPulse) ==
    LET ns0 == w.nodes
        e0 == ns0[el]
        originalStyle == IF e0.hasStyle THEN e0.style ELSE EmptyStyle
        e1 == [ClassAdd(e0, "oli-highlight") EXCEPT
                  !.data = @ \cup {"oliStatus", "oliMessage", "oliOriginalStyle"},
                  !.dStatus = status,
                  !.dMessage = IF message = "" THEN "Element flagged by OLI" ELSE message,
                  !.dOrigStyle = originalStyle,
                  !.hasStyle = TRUE,
                  !.style = [base |-> originalStyle.base,
                             props |-> [originalStyle.props EXCEPT
                                          !["outline"] = colorsOf(status),
                                          !["outline-offset"] = "2px",
                                          !["background"] = colorsOf(status),
                                          !["border-radius"] = "4px",
                                          !["transition"] = "all 0.2s ease"]]]
        isVoid == e0.tag \in VoidTags
        badgeExists ==
            IF isVoid
            THEN /\ e0.parent # 0
                 /\ \E b \in Range(SelectAll(".oli-badge", ns0, Descendants(ns0, e0.parent))) :
                        "for" \in ns0[b].data /\ ns0[b].dFor = IdOrName(e0)
            ELSE SelectAll(".oli-badge", ns0, Descendants(ns0, el)) # <<>>
        ns1 == [ns0 EXCEPT ![el] = e1]
        b == NewId(ns1)
        bt == b + 1
        ns2 ==
            IF badgeExists THEN ns1
            ELSE LET withBadge == Alloc(Alloc(ns1, BadgeNode(status)), TextNode(b, badgeText(status)))
                     nsb == [withBadge EXCEPT ![b].kids = <<bt>>]
                 IN  IF isVoid
                     THEN [AppendChild(nsb, Body, b) EXCEPT
                              ![b].data = {"for", "cleanup"},
                              ![b].dFor = IdOrName(e0),
                              ![b].style.props["position"] = "fixed",
                              ![el].data = @ \cup {"badgeScrollHandler", "oliBadgeCreated"}]
                     ELSE [AppendChild(nsb, el, b) EXCEPT
                              ![b].style.props["position"] = "absolute",
                              ![el] = IF (IF @.style.props["position"] # ""
                                          THEN @.style.props["position"] ELSE "static") = "static"
                                      THEN StyleSet(@, "position", "relative") ELSE @]
        ns3 == [ns2 EXCEPT ![el].data = @ \cup {"oliMouseEnter", "oliMouseLeave"}]
        ls1 == IF ~badgeExists /\ isVoid THEN windowListeners(w.ls, el, b) ELSE w.ls
        frames == IF ~badgeExists /\ isVoid
                  THEN <<[kind |-> "frame", el |-> el, badge |-> b, left |-> 0, shown |-> FALSE]>>
                  ELSE <<>>
        w1 == [w EXCEPT !.nodes = ns3, !.hl = @ \o <<el>>, !.ls = hoverListeners(ls1, el),
                        !.timers = @ \o frames]
    IN  IF scrollAndPulse THEN scrollToAndPulse(w1, el) ELSE w1

\* the label text the locator associates with an input
LabelTextOf(ns, input) ==
    LET n == ns[input]
        doc == DocOrder(ns)
        byFor == IF n.id = <<>> THEN 0
                 ELSE First(SelectSeq(doc, LAMBDA x : ns[x].kind = "elem" /\ ns[x].tag = "LABEL"
                                                      /\ ns[x].htmlFor = n.id))
        t1 == IF byFor # 0 THEN Trim(textContent(ns, byFor)) ELSE <<>>
        wrap == Closest("label", ns, input)
        t2 == IF t1 = <<>> /\ wrap # 0 THEN Trim(textContent(ns, wrap)) ELSE t1
        group == Closest(".form-group, .field, .col", ns, input)
        glabel == IF group = 0 THEN 0 ELSE First(SelectAll("label", ns, Descendants(ns, group)))
    IN  IF t2 = <<>> /\ glabel # 0 THEN Trim(textContent(ns, glabel)) ELSE t2

\* the value part of the score of one input: the whitespace-normalized value
\* contains the key-value, or the key-value contains it
ValueMatches(value, keyValue) ==
    LET normalizedValue == Trim(CollapseWs(value))
        normalizedKeyValue == Trim(CollapseWs(keyValue))
    IN  /\ normalizedValue # <<>>
        /\ \/ Includes(normalizedValue, normalizedKeyValue)
           \/ Includes(normalizedKeyValue, normalizedValue)
           \/ normalizedValue = normalizedKeyValue

\* matchScore of one input
InputScore(ns, input, keyValue, targetLabel) ==
    LET n == ns[input]
        nameLower == ToLower(n.name)
        idLower == ToLower(n.id)
        labelLower == ToLower(targetLabel)
        labelTextLower == ToLower(LabelTextOf(ns, input))
    IN  (IF ValueMatches(n.value, keyValue) THEN 10 ELSE 0)
      + (IF targetLabel # <<>> /\
            (\/ Includes(nameLower, labelLower) \/ Includes(labelLower, nameLower)
             \/ Includes(idLower, labelLower) \/ Includes(labelLower, idLower))
         THEN 3 ELSE 0)
      + (IF targetLabel # <<>> /\ labelTextLower # <<>> /\
            (Includes(labelTextLower, labelLower) \/ Includes(labelLower, labelTextLower))
         THEN 5 ELSE 0)

\* the loop over the inputs: the first input with the highest positive score
RECURSIVE BestInput(_, _, _, _, _)
BestInput(ns, inputs, keyValue, targetLabel, best) ==
    IF inputs = <<>> THEN best
    ELSE LET input == Head(inputs)
             skip == ns[input].type \in {"hidden", "submit", "button", "image"}
             score == IF skip THEN 0 ELSE InputScore(ns, input, keyValue, targetLabel)
         IN  BestInput(ns, Tail(inputs), keyValue, targetLabel,
                       IF ~skip /\ score > best.score
                       THEN [el |-> input, score |-> score] ELSE best)

MinInputScore == 3

NoMatch == [el |-> 0, type |-> "none"]

\* a locator that tries the text tiers (value element, highlighted element,
\* table cell, amount element) before the editable fields
MutFindBestMatchElement(ns, searchText, keyValue) ==
    LET doc == DocOrder(ns)
        best == BestInput(ns, SelectAll("input, select, textarea", ns, doc),
                          keyValue, TargetLabel(searchText), [el |-> 0, score |-> 0])
        has(x) == Includes(textContent(ns, x), keyValue)
        p3 == First(SelectSeq(SelectAll("td, th", ns, doc), has))
        p4 == First(SelectSeq(SelectAll("amounts", ns, doc), has))
    IN  IF p3 # 0 THEN [el |-> p3, type |-> "table"]
        ELSE IF p4 # 0 THEN [el |-> p4, type |-> "amount"]
        ELSE IF best.score >= MinInputScore THEN [el |-> best.el, type |-> "input"]
        ELSE NoMatch

\* findBestMatchElement(searchText, keyValue)
findBestMatchElement(ns, searchText, keyValue) ==
    LET doc == DocOrder(ns)
        targetLabel == TargetLabel(searchText)
        best == BestInput(ns, SelectAll("input, select, textarea", ns, doc),
                          keyValue, targetLabel, [el |-> 0, score |-> 0])
        has(x) == Includes(textContent(ns, x), keyValue)
        \* Priority 1: the value element of a field container
        valueEls == [i \in 1..Len(SelectAll("field containers", ns, doc)) |->
                        First(SelectAll("value elements", ns,
                                Descendants(ns, SelectAll("field containers", ns, doc)[i])))]
        p1 == First(SelectSeq(valueEls, LAMBDA x : x # 0 /\ has(x)))
        p2 == First(SelectSeq(SelectAll("highlighted", ns, doc), has))
        p3 == First(SelectSeq(SelectAll("td, th", ns, doc), has))
        p4 == First(SelectSeq(SelectAll("amounts", ns, doc), has))
    IN  IF best.score >= MinInputScore THEN [el |-> best.el, type |-> "input"]
        ELSE IF p1 # 0 THEN [el |-> p1, type |-> "value"]
        ELSE IF p2 # 0 THEN [el |-> p2, type |-> "highlighted"]
        ELSE IF p3 # 0 THEN [el |-> p3, type |-> "table"]
        ELSE IF p4 # 0 THEN [el |-> p4, type |-> "amount"]
        ELSE NoMatch

\* the "remove any previous focus highlights" loop of findAndScrollToText
RECURSIVE resetFocus(_, _)
resetFocus(ns, els) ==
    IF els = <<>> THEN ns
    ELSE resetFocus(
            [ns EXCEPT ![Head(els)] =
                StyleSet(StyleSet(StyleSet(ClassRemove(@, "oli-focus-highlight"),
                    "animation", ""), "outline", ""), "box-shadow", "")],
            Tail(els))

\* searchVariants, empty ones filtered out (the Set only removes duplicates,
\* which does not change the first variant a node contains)
searchVariants(searchText, keyValue) ==
    SelectSeq(<<searchText,
                keyValue,
                CollapseWs(Trim(searchText)),
                StripWs(keyValue),
                NbspWs(keyValue),
                NormalizeColons(searchText)>>,
              LAMBDA v : v # <<>>)

\* span.innerHTML = parts.join(<mark>variant</mark>): the children of the span
RECURSIVE spanContent(_, _, _, _, _)
spanContent(ns, span, parts, variant, k) ==
    IF k > Len(parts) THEN ns
    ELSE LET ns1 == IF parts[k] = <<>> THEN ns
                    ELSE AppendChild(Alloc(ns, TextNode(0, parts[k])), span, NewId(ns))
             m == NewId(ns1)
             ns2 == IF k = Len(parts) THEN ns1
                    ELSE AppendChild(
                           [Alloc(Alloc(ns1, [BlankNode EXCEPT !.tag = "MARK", !.hasStyle = TRUE,
                                                !.style = [base |-> "mark", props |-> NoProps]]),
                                  TextNode(m, variant))
                              EXCEPT ![m].kids = <<m + 1>>],
                           span, m)
         IN  spanContent(ns2, span, parts, variant, k + 1)

\* the free-text fallback: wrap the text node in a highlight span
wrapTextNode(w, node, variant, status, message) ==
    LET ns0 == w.nodes
        span == NewId(ns0)
        rec == [BlankNode EXCEPT
                  !.tag = "SPAN", !.hasClass = TRUE,
                  !.classes = <<"oli-highlight", "oli-focus-highlight">>,
                  !.data = {"oliOriginal", "oliStatus", "oliMessage"},
                  !.dOriginal = ns0[node].text,
                  !.dStatus = status,
                  !.dMessage = IF message = "" THEN "Element flagged by OLI" ELSE message,
                  !.hasStyle = TRUE,
                  !.style = [base |-> "span", props |-> [NoProps EXCEPT !["position"] = "relative"]]]
        ns1 == spanContent(Alloc(ns0, rec), span, Split(ns0[node].text, variant), variant, 1)
        b == NewId(ns1)
        ns2 == AppendChild(
                 [Alloc(Alloc(ns1, [BadgeNode(status) EXCEPT !.style.props["position"] = "absolute"]),
                        TextNode(b, badgeText(status))) EXCEPT ![b].kids = <<b + 1>>],
                 span, b)
        ns3 == ReplaceChild(ns2, span, node)
    IN  scrollToAndPulse([w EXCEPT !.nodes = ns3, !.hl = @ \o <<span>>,
                                   !.ls = hoverListeners(@, span)], span)

\* el.value || el.textContent || ''
ValueOrText(ns, x) == IF ns[x].value # <<>> THEN ns[x].value ELSE textContent(ns, x)

\* findAndScrollToText: "Try to find in existing highlights first"
existingHighlight(ns, searchText, keyValue) ==
    First(SelectSeq(SelectAll(".oli-highlight", ns, DocOrder(ns)),
                    LAMBDA x : \/ Includes(ValueOrText(ns, x), searchText)
                               \/ Includes(ValueOrText(ns, x), keyValue)))

\* findAndScrollToText: the variants the text of node x contains
variantsIn(ns, x, uniqueVariants) ==
    SelectSeq(uniqueVariants, LAMBDA v : Includes(ns[x].text, v))

\* findAndScrollToText: the TreeWalker loop; the first text node that is not
\* blank and contains a variant, or 0
firstTextHit(ns, uniqueVariants) ==
    First(SelectSeq(DocOrder(ns),
                    LAMBDA x : /\ ns[x].kind = "text"
                               /\ Trim(ns[x].text) # <<>>
                               /\ variantsIn(ns, x, uniqueVariants) # <<>>))

\* findAndScrollToText, "Fallback to text search"
searchInText(w, hit, uniqueVariants, status, message) ==
    IF hit # 0
    THEN [w |-> wrapTextNode(w, hit, variantsIn(w.nodes, hit, uniqueVariants)[1], status, message),
          found |-> TRUE]
    ELSE [w |-> w, found |-> FALSE]

\* findAndScrollToText, from the result of findBestMatchElement on
searchFromBestMatch(w, bestMatch, searchText, keyValue, status, message, scrollAndPulse) ==
    IF bestMatch.el # 0
    THEN [w |-> highlightExistingElement(w, bestMatch.el, status, message, scrollAndPulse),
          found |-> TRUE]
    ELSE searchInText(w, firstTextHit(w.nodes, searchVariants(searchText, keyValue)),
                      searchVariants(searchText, keyValue), status, message)

\* findAndScrollToText, from the lookup among the existing highlights on
searchFromExisting(w, existing, searchText, keyValue, status, message, scrollAndPulse) ==
    IF existing # 0
    THEN [w |-> scrollToAndPulse(w, existing), found |-> TRUE]
    ELSE searchFromBestMatch(w, findBestMatchElement(w.nodes, searchText, keyValue),
                             searchText, keyValue, status, message, scrollAndPulse)

\* findAndScrollToText, after the focus highlights have been removed
searchAfterReset(w, searchText, keyValue, status, message, scrollAndPulse) ==
    searchFromExisting(w,
                       IF scrollAndPulse THEN existingHighlight(w.nodes, searchText, keyValue)
                       ELSE 0,
                       searchText, keyValue, status, message, scrollAndPulse)

\* findAndScrollToText(searchText, status, message, scrollAndPulse)
findAndScrollToText(w, searchText, status, message, scrollAndPulse) ==
    searchAfterReset(
        [w EXCEPT !.nodes = resetFocus(w.nodes, SelectAll(".oli-focus-highlight", w.nodes,
                                                          DocOrder(w.nodes)))],
        searchText, extractKeyValue(searchText), status, message, scrollAndPulse)

\* the text of the floating indicator
indicatorText(overallStatus) ==
    CASE overallStatus = "CRITIQUE" -> <<"O", "L", "I", ":", " ", "A", "l", "e", "r", "t", "s", " ", "d", "e", "t", "e", "c", "t", "e", "d">>
      [] overallStatus = "AVERTISSEMENT" -> <<"O", "L", "I", ":", " ", "P", "o", "i", "n", "t", "s", " ", "o", "f", " ", "a", "t", "t", "e", "n", "t", "i", "o", "n">>
      [] OTHER -> <<"O", "L", "I", ":", " ", "C", "o", "m", "p", "l", "i", "a", "n", "t">>

IsIndicator(n) == n.kind = "elem" /\ n.id = <<"oli-indicator">>

\* document.getElementById('oli-indicator'), or 0
getIndicator(ns) == First(SelectSeq(DocOrder(ns), LAMBDA x : IsIndicator(ns[x])))

\* addFloatingIndicator(overallStatus); the white-space text nodes of the
\* innerHTML template are skipped by every reader and are left out
addFloatingIndicator(w, overallStatus) ==
    LET ns0 == IF getIndicator(w.nodes) # 0 THEN RemoveNode(w.nodes, getIndicator(w.nodes))
               ELSE w.nodes
        d == NewId(ns0)
        div == [BlankNode EXCEPT !.tag = "DIV", !.id = <<"oli-indicator">>, !.hasStyle = TRUE,
                  !.style = [base |-> "indicator",
                             props |-> [NoProps EXCEPT
                                 !["position"] = "fixed",
                                 !["display"] = "flex",
                                 !["transition"] = "all 0.3s ease",
                                 !["animation"] = IF overallStatus = "CRITIQUE"
                                                  THEN "oli-slide-in, oli-pulse"
                                                  ELSE "oli-slide-in"]],
                  !.dStatus = colorsOf(overallStatus),
                  !.kids = <<d + 1, d + 3>>]
        icon == [BlankNode EXCEPT !.tag = "SPAN", !.parent = d, !.kids = <<d + 2>>,
                                  !.hasStyle = TRUE,
                                  !.style = [base |-> "icon", props |-> NoProps]]
        label == [BlankNode EXCEPT !.tag = "SPAN", !.parent = d, !.kids = <<d + 4>>]
        ns1 == ns0 \o <<div, icon, TextNode(d + 1, <<"shield">>),
                        label, TextNode(d + 3, indicatorText(overallStatus))>>
    IN  [w EXCEPT !.nodes = AppendChild(ns1, Body, d),
                  !.head = @ \cup {"oli-animations"},
                  !.ls = hoverListeners(@, d)]

\* a handler is over: the nodes still in the document are renumbered in
\* document order; what points at a node that left the document is Detached
NewIndex(order, x) ==
    IF x = 0 THEN 0
    ELSE LET hits == {i \in 1..Len(order) : order[i] = x}
         IN  IF hits = {} THEN Detached ELSE CHOOSE i \in hits : TRUE

RECURSIVE Renumber(_, _)
Renumber(refs, order) ==
    IF refs = <<>> THEN <<>>
    ELSE <<NewIndex(order, Head(refs))>> \o Renumber(Tail(refs), order)

RECURSIVE RenumberNodes(_, _, _)
RenumberNodes(ns, order, rest) ==
    IF rest = <<>> THEN <<>>
    ELSE <<[ns[Head(rest)] EXCEPT !.parent = NewIndex(order, ns[Head(rest)].parent),
                                  !.kids = Renumber(ns[Head(rest)].kids, order)]>>
         \o RenumberNodes(ns, order, Tail(rest))

RECURSIVE RenumberTimers(_, _)
RenumberTimers(ts, order) ==
    IF ts = <<>> THEN <<>>
    ELSE <<[kind |-> Head(ts).kind, el |-> NewIndex(order, Head(ts).el),
            badge |-> NewIndex(order, Head(ts).badge), left |-> Head(ts).left,
            shown |-> Head(ts).shown]>>
         \o RenumberTimers(Tail(ts), order)

\* a listener of an element that is out of the document is out of reach with it;
\* a listener of the window stays
RECURSIVE RenumberListeners(_, _)
RenumberListeners(ls, order) ==
    IF ls = <<>> THEN <<>>
    ELSE (IF ~Head(ls).onWindow /\ NewIndex(order, Head(ls).target) = Detached
          THEN <<>>
          ELSE <<[onWindow |-> Head(ls).onWindow,
                  target |-> NewIndex(order, Head(ls).target),
                  type |-> Head(ls).type,
                  badge |-> NewIndex(order, Head(ls).badge)]>>)
         \o RenumberListeners(Tail(ls), order)

Canon(w) ==
    LET order == DocOrder(w.nodes)
    IN  [nodes |-> RenumberNodes(w.nodes, order, order),
         hl |-> Renumber(w.hl, order),
         tip |-> NewIndex(order, w.tip),
         head |-> w.head,
         timers |-> RenumberTimers(w.timers, order),
         scrolled |-> NewIndex(order, w.scrolled),
         ls |-> RenumberListeners(w.ls, order),
         view |-> w.view]

\* highlights.forEach(h => findAndScrollToText(h.text, h.status, ..., false))
\* the text of a finding that is null: no string has an element of four characters
Null == <<"null">>

\* findAndScrollToText(null, ...): the focus loop runs, then extractKeyValue
\* calls null.match and throws
throwsOnNull(w) ==
    [w EXCEPT !.nodes = resetFocus(@, SelectAll(".oli-focus-highlight", @, DocOrder(@)))]

\* the exception of a null text leaves the forEach: no later finding is attempted
RECURSIVE highlightEach(_, _)
highlightEach(w, highlights) ==
    IF highlights = <<>> THEN w
    ELSE IF Head(highlights).text = Null THEN throwsOnNull(w)
    ELSE highlightEach(
            findAndScrollToText(w, Head(highlights).text, Head(highlights).status,
                                "Risk element detected", FALSE).w,
            Tail(highlights))

\* onMessage, action HIGHLIGHT_RISKS: the world after the handler and its response
\* the handler threw: sendResponse was not called
Thrown == [status |-> "TypeError", count |-> 0, success |-> FALSE]

hasNull(highlights) == \E k \in 1..Len(highlights) : highlights[k].text = Null

\* the handler after the forEach: the exception of a null text has left it,
\* or the indicator is put up and the response sent
highlighted(w, highlights, overallStatus) ==
    IF hasNull(highlights)
    THEN [w |-> Canon(w), resp |-> Thrown]
    ELSE [w |-> Canon(addFloatingIndicator(w, overallStatus)),
          resp |-> [status |-> "Highlighted", count |-> Len(highlights), success |-> TRUE]]

HIGHLIGHT_RISKS(w, highlights, overallStatus) ==
    highlighted(highlightEach(cleanupHighlights(w), highlights), highlights, overallStatus)

\* the message came without data: the destructuring of request.data throws
\* after cleanupHighlights()
highlightRisksNoData(w) == [w |-> Canon(cleanupHighlights(w)), resp |-> Thrown]

\* onMessage, action CLEAR_HIGHLIGHTS
removeIndicator(w) ==
    IF getIndicator(w.nodes) # 0
    THEN [w EXCEPT !.nodes = RemoveNode(w.nodes, getIndicator(w.nodes))]
    ELSE w

CLEAR_HIGHLIGHTS(w) ==
    [w |-> Canon(removeIndicator(cleanupHighlights(w))),
     resp |-> [status |-> "Cleared", count |-> 0, success |-> TRUE]]

\* onMessage, action SCROLL_TO_TEXT; text <<>> is the missing or empty text
scrollAnswer(r) ==
    [w |-> Canon(r.w), resp |-> [status |-> "", count |-> 0, success |-> r.found]]

SCROLL_TO_TEXT(w, text, status, message) ==
    IF text \in {<<>>, Null}
    THEN [w |-> w, resp |-> [status |-> "No text provided", count |-> 0, success |-> FALSE]]
    ELSE scrollAnswer(findAndScrollToText(w, text, status, message, TRUE))

\* the message came without data: the destructuring of request.data throws
scrollToTextNoData(w) == [w |-> w, resp |-> Thrown]

\* extractFormData(): the fields that are not utility inputs and hold a value
extractFormData(ns) ==
    SelectSeq(SelectAll("input, select, textarea", ns, DocOrder(ns)),
              LAMBDA x : /\ ns[x].type \notin {"hidden", "submit", "button", "image", "file"}
                         /\ Trim(ns[x].value) # <<>>)

\* onMessage, action SCAN_PAGE: the response {text}; count is the number of
\* "Field [label]: value" lines appended to document.body.innerText
SCAN_PAGE(w) ==
    [w |-> w, resp |-> [status |-> "text", count |-> Len(extractFormData(w.nodes)),
                        success |-> TRUE]]

(***************************************************************************)
(* The content script as a state machine: messages arrive in any order,    *)
(* the timers of scrollToAndPulse fire when they are due.                  *)
(***************************************************************************)
MaxFindings == 2        \* findings in one HIGHLIGHT_RISKS message
MaxMessages == 2        \* messages the listener receives in one run

\* the fragments of the findings
FragFunds == <<"F", "i", "e", "l", "d", " ", "[", "F", "u", "n", "d", "s", "]", ":", " ", "2", "0", "6", "3", "5">>
FragMoney == <<"5", " ", "0", "0", "0", " ", "$">>
FragLabel == <<"F", "u", "n", "d", "s">>
FragMiss == <<"x", "y", "z">>
FragOverlay == <<"O", "L", "I">>

Findings ==
    {[text |-> FragFunds, status |-> "CRITIQUE"],
     [text |-> FragMoney, status |-> "CRITIQUE"],
     [text |-> FragLabel, status |-> "AVERTISSEMENT"],
     [text |-> FragMiss, status |-> "CRITIQUE"],
     [text |-> FragOverlay, status |-> "AVERTISSEMENT"]}

FindingLists == SeqsUpTo(Findings, MaxFindings)

\* the pages: a funds field (value "20635") with its label, a balance field
\* (value "5000") with its label; PageTable adds a table cell "20635",
\* PageAmount gives the funds field a style attribute and adds an amount
\* paragraph "5 000 $"
Elem(tag, parent, kids) == [BlankNode EXCEPT !.tag = tag, !.parent = parent, !.kids = kids]

FormGroup(parent, kids) ==
    [Elem("DIV", parent, kids) EXCEPT !.hasClass = TRUE, !.classes = <<"form-group">>]

Field(parent, id, value) ==
    [Elem("INPUT", parent, <<>>) EXCEPT !.id = id, !.name = id, !.type = "text", !.value = value]

Label(parent, kids, for) == [Elem("LABEL", parent, kids) EXCEPT !.htmlFor = for]

S_funds == <<"f", "u", "n", "d", "s">>
S_balance == <<"b", "a", "l", "a", "n", "c", "e">>
S_20635 == <<"2", "0", "6", "3", "5">>
S_5000 == <<"5", "0", "0", "0">>

PageTable ==
    << Elem("BODY", 0, <<2, 6, 9>>),
       FormGroup(1, <<3, 5>>),
       Label(2, <<4>>, S_funds),
       TextNode(3, <<"F", "u", "n", "d", "s">>),
       Field(2, S_funds, S_20635),
       Elem("TR", 1, <<7>>),
       Elem("TD", 6, <<8>>),
       TextNode(7, S_20635),
       FormGroup(1, <<10, 12>>),
       Label(9, <<11>>, S_balance),
       TextNode(10, <<"B", "a", "l", "a", "n", "c", "e">>),
       Field(9, S_balance, S_5000) >>

PageAmount ==
    << Elem("BODY", 0, <<2, 6, 10>>),
       FormGroup(1, <<3, 5>>),
       Label(2, <<4>>, S_funds),
       TextNode(3, <<"F", "u", "n", "d", "s">>),
       [Field(2, S_funds, S_20635) EXCEPT !.hasStyle = TRUE, !.style.base = "color: red;"],
       FormGroup(1, <<7, 9>>),
       Label(6, <<8>>, S_balance),
       TextNode(7, <<"B", "a", "l", "a", "n", "c", "e">>),
       Field(6, S_balance, S_5000),
       [Elem("P", 1, <<11>>) EXCEPT !.hasClass = TRUE, !.classes = <<"amount">>],
       TextNode(10, FragMoney) >>

Pages == {PageTable, PageAmount}

\* a page with one table cell of two lines: "Funds", a line break, "5000$"
PageCell ==
    << Elem("BODY", 0, <<2>>),
       Elem("TR", 1, <<3>>),
       Elem("TD", 2, <<4, 5, 6>>),
       TextNode(3, FragLabel),
       Elem("BR", 3, <<>>),
       TextNode(3, <<"5", "0", "0", "0", "$">>) >>

\* a page whose funds field is in a collapsed section (display: none); the
\* balance field is shown
PageHidden ==
    << Elem("BODY", 0, <<2, 6>>),
       [FormGroup(1, <<3, 5>>) EXCEPT !.hasStyle = TRUE, !.style.props["display"] = "none"],
       Label(2, <<4>>, S_funds),
       TextNode(3, <<"F", "u", "n", "d", "s">>),
       Field(2, S_funds, S_20635),
       FormGroup(1, <<7, 9>>),
       Label(6, <<8>>, S_balance),
       TextNode(7, <<"B", "a", "l", "a", "n", "c", "e">>),
       Field(6, S_balance, S_5000) >>

\* a page of the host with an element of its own that carries the class
\* oli-badge (a counter "new"), and a paragraph "Funds"
PageHostBadge ==
    << Elem("BODY", 0, <<2, 4>>),
       [Elem("SPAN", 1, <<3>>) EXCEPT !.hasClass = TRUE, !.classes = <<"oli-badge">>],
       TextNode(2, <<"n", "e", "w">>),
       Elem("P", 1, <<5>>),
       TextNode(4, FragLabel) >>

\* a page with a funds field (value "20635") and a field for a number of
\* dependants (value "5"), each with its label
S_count == <<"c", "o", "u", "n", "t">>

PageCount ==
    << Elem("BODY", 0, <<2, 6>>),
       FormGroup(1, <<3, 5>>),
       Label(2, <<4>>, S_funds),
       TextNode(3, <<"F", "u", "n", "d", "s">>),
       Field(2, S_funds, S_20635),
       FormGroup(1, <<7, 9>>),
       Label(6, <<8>>, S_count),
       TextNode(7, <<"C", "o", "u", "n", "t">>),
       Field(6, S_count, <<"5">>) >>

\* a page with a search box (name "q", no id, no label, no value) and a table
\* cell "20635"
PageSearch ==
    << Elem("BODY", 0, <<2, 3>>),
       [Elem("INPUT", 1, <<>>) EXCEPT !.name = <<"q">>, !.type = "text"],
       Elem("TR", 1, <<4>>),
       Elem("TD", 3, <<5>>),
       TextNode(4, S_20635) >>

\* a message: the action and its data (the fields an action does not use
\* are empty)
Msg(action, highlights, overallStatus, text, status, message) ==
    [action |-> action, data |-> TRUE, highlights |-> highlights,
     overallStatus |-> overallStatus, text |-> text, status |-> status, message |-> message]

\* the message without its data payload
NoData(msg) == [msg EXCEPT !.data = FALSE]

NoRequest == Msg("", <<>>, "", <<>>, "", "")

HighlightRisksMsg(highlights, overallStatus) ==
    Msg("HIGHLIGHT_RISKS", highlights, overallStatus, <<>>, "", "")

\* the panel sends {action: "CLEAR_HIGHLIGHTS"}: no data
ClearHighlightsMsg == NoData(Msg("CLEAR_HIGHLIGHTS", <<>>, "", <<>>, "", ""))

ScanPageMsg == NoData(Msg("SCAN_PAGE", <<>>, "", <<>>, "", ""))

\* lists of findings with a null text in them
NullFinding == [text |-> Null, status |-> "CRITIQUE"]

NullLists ==
    {<<NullFinding>>,
     <<NullFinding, [text |-> FragFunds, status |-> "CRITIQUE"]>>,
     <<[text |-> FragLabel, status |-> "AVERTISSEMENT"], NullFinding>>}

ScrollToTextMsg(text, status, message) ==
    Msg("SCROLL_TO_TEXT", <<>>, "", text, status, message)

\* the worst severity of a list of findings
Worst(highlights) ==
    IF \E k \in 1..Len(highlights) : highlights[k].status = "CRITIQUE" THEN "CRITIQUE"
    ELSE IF highlights # <<>> THEN "AVERTISSEMENT"
    ELSE "CONFORME"

\* the messages the listener is sent
Messages ==
    {HighlightRisksMsg(h, Worst(h)) : h \in FindingLists \cup NullLists}
    \cup {NoData(HighlightRisksMsg(<<>>, "")), NoData(ScrollToTextMsg(<<>>, "", ""))}
    \cup {ClearHighlightsMsg, ScanPageMsg}
    \cup {ScrollToTextMsg(f.text, f.status, IF f.status = "CRITIQUE" THEN "m" ELSE "") :
            f \in Findings}
    \cup {ScrollToTextMsg(<<>>, "CRITIQUE", "m")}

\* the content script's state as one record, and back
W ==
    [nodes |-> nodes, hl |-> highlightedElements, tip |-> tooltipElement,
     head |-> headStyles, timers |-> timers, scrolled |-> scrolled, ls |-> listeners,
     view |-> viewport]

SetW(w) ==
    /\ nodes' = w.nodes
    /\ highlightedElements' = w.hl
    /\ tooltipElement' = w.tip
    /\ headStyles' = w.head
    /\ timers' = w.timers
    /\ scrolled' = w.scrolled
    /\ listeners' = w.ls
    /\ viewport' = w.view

\* the scroll offsets and the inner widths of the window
Scrolls == {0, 30}
Widths == {800, 1024}

TopOfPage == [scrollY |-> 0, innerWidth |-> 1024]

\* the script has just been injected into the page: "Initial setup"
Loaded(page) ==
    createTooltip([nodes |-> page, hl |-> <<>>, tip |-> 0, head |-> {},
                   timers |-> <<>>, scrolled |-> 0, ls |-> <<>>, view |-> TopOfPage])

NoResponse == [status |-> "", count |-> 0, success |-> FALSE]

NoResult == [present |-> FALSE, checks |-> <<>>, overall_status |-> "", from |-> ""]

NothingSent == [fn |-> "", text |-> <<>>]

\* the panel is not open
NoPanel ==
    /\ loading = FALSE
    /\ result = NoResult
    /\ error = FALSE
    /\ currentPdfUrl = FALSE
    /\ injected = TRUE
    /\ onMessageListeners = 1
    /\ pc = "idle"
    /\ sent = NothingSent
    /\ outbox = <<>>
    /\ cycles = 0

\* the anonymizer singleton as constructed: empty maps, counter 0
\* new DOMScanner(): no observer, no listener, no timer
NoTimeout == [left |-> 0, form |-> FALSE, pending |-> FALSE, field |-> ""]

NoScanner ==
    /\ mutationObserver = FALSE
    /\ formListeners = FALSE
    /\ debounceTimeout = NoTimeout
    /\ domChanges = 0
    /\ fieldChanges = 0
    /\ burst = 0
    /\ windowLeft = 0
    /\ awaited = {}
    /\ inputEvents = 0

\* no tooltip has been positioned
NoRect == [left |-> 0, width |-> 0]

TooltipHidden == [visible |-> FALSE, left |-> 0]

NoTooltip ==
    /\ innerWidth = 1024
    /\ tipRect = NoRect
    /\ offsetWidth = 0
    /\ tipStyle = TooltipHidden

\* no page has been scanned
NoSnapshot == textBlocks = <<>>

\* the panel shows no loading message and has set no timer for one
NoLoading ==
    /\ loadingMessage = ""
    /\ progressTimers = <<>>

\* PDFExtractionResult
PDFExtractionResult(success, totalPages, content, formFields, fullText) ==
    [success |-> success, totalPages |-> totalPages, content |-> content,
     formFields |-> formFields, fullText |-> fullText]

\* no extraction has been asked for
NoPdf ==
    pdfCall = [fn |-> "", loading |-> "", pdf |-> <<>>,
               result |-> PDFExtractionResult(FALSE, 0, <<>>, <<>>, <<>>)]

RestIdle == NoScanner /\ NoTooltip /\ NoSnapshot /\ NoLoading /\ NoPdf

AnonInit ==
    /\ tokenMap = <<>>
    /\ reverseMap = <<>>
    /\ tokenCounter = 0
    /\ anonOut = [in |-> <<>>, out |-> <<>>]
    /\ anonLog = {}

Init ==
    /\ AnonInit
    /\ NoPanel
    /\ RestIdle
    /\ \E page \in Pages :
         /\ nodes = Loaded(page).nodes
         /\ tooltipElement = Loaded(page).tip
    /\ highlightedElements = <<>>
    /\ headStyles = {}
    /\ timers = <<>>
    /\ scrolled = 0
    /\ listeners = <<>>
    /\ viewport = TopOfPage
    /\ response = NoResponse
    /\ request = NoRequest
    /\ log = <<>>

\* chrome.runtime.onMessage.addListener: the branch of the message's action
onMessage(w, msg) ==
    CASE msg.action = "SCAN_PAGE" -> SCAN_PAGE(w)
      [] msg.action = "HIGHLIGHT_RISKS" /\ ~msg.data -> highlightRisksNoData(w)
      [] msg.action = "HIGHLIGHT_RISKS" /\ msg.data ->
            HIGHLIGHT_RISKS(w, msg.highlights, msg.overallStatus)
      [] msg.action = "CLEAR_HIGHLIGHTS" -> CLEAR_HIGHLIGHTS(w)
      [] msg.action = "SCROLL_TO_TEXT" /\ ~msg.data -> scrollToTextNoData(w)
      [] OTHER -> SCROLL_TO_TEXT(w, msg.text, msg.status, msg.message)

\* the listener has handled msg: r is the state it leaves and its response
Handled(msg, r) ==
    /\ SetW(r.w)
    /\ response' = r.resp
    /\ request' = msg
    /\ log' = Append(log, msg.action)

\* the listener receives msg and answers
Receive(msg) == Handled(msg, onMessage(W, msg))

OnHighlightRisks ==
    /\ Len(log) < MaxMessages
    /\ \E msg \in Messages :
         /\ msg.action = "HIGHLIGHT_RISKS"
         /\ IF msg.data
            THEN Handled(msg, HIGHLIGHT_RISKS(W, msg.highlights, msg.overallStatus))
            ELSE Handled(msg, highlightRisksNoData(W))
    /\ UNCHANGED <<anonVars, restVars, panelVars>>

OnClearHighlights ==
    /\ Len(log) < MaxMessages
    /\ Handled(ClearHighlightsMsg, CLEAR_HIGHLIGHTS(W))
    /\ UNCHANGED <<anonVars, restVars, panelVars>>

OnScrollToText ==
    /\ Len(log) < MaxMessages
    /\ \E msg \in Messages :
         /\ msg.action = "SCROLL_TO_TEXT"
         /\ IF msg.data
            THEN Handled(msg, SCROLL_TO_TEXT(W, msg.text, msg.status, msg.message))
            ELSE Handled(msg, scrollToTextNoData(W))
    /\ UNCHANGED <<anonVars, restVars, panelVars>>

OnScanPage ==
    /\ Len(log) < MaxMessages
    /\ Handled(ScanPageMsg, SCAN_PAGE(W))
    /\ UNCHANGED <<anonVars, restVars, panelVars>>

\* the callback of one due timer
fire(w, t) ==
    CASE t.kind = "tooltip" ->
            LET shown == IF t.el = Detached THEN createTooltip(w)
                         ELSE showTooltip(w, t.el, w.nodes[t.el].dMessage, w.nodes[t.el].dStatus)
            IN  [shown EXCEPT !.timers = @ \o <<[kind |-> "hide", el |-> 0, badge |-> 0,
                                                  left |-> HideDelay,
                                                  shown |-> HasBox(w, t.el)]>>]
      [] t.kind = "frame" -> updateBadgePosition(w, t.el, t.badge)
      [] t.kind = "unfocus" ->
            IF t.el = Detached THEN w
            ELSE [w EXCEPT !.nodes[t.el] = ClassRemove(@, "oli-focus-highlight")]
      [] OTHER -> hideTooltip(w)

\* the oldest due timer fires
TimerFires ==
    /\ \E k \in 1..Len(timers) :
         /\ timers[k].left = 0
         /\ \A j \in 1..(k - 1) : timers[j].left # 0
         /\ SetW(Canon(fire([W EXCEPT !.timers = SubSeq(timers, 1, k - 1)
                                                   \o SubSeq(timers, k + 1, Len(timers))],
                            timers[k])))
    /\ UNCHANGED <<response, request, log, anonVars, restVars, panelVars>>

RECURSIVE Elapse(_)
Elapse(ts) ==
    IF ts = <<>> THEN <<>>
    ELSE <<[kind |-> Head(ts).kind, el |-> Head(ts).el, badge |-> Head(ts).badge,
            left |-> Head(ts).left - 1, shown |-> Head(ts).shown]>>
         \o Elapse(Tail(ts))

\* 500 ms pass; a due timer fires before time moves on
Tick ==
    /\ timers # <<>>
    /\ \A k \in 1..Len(timers) : timers[k].left > 0
    /\ timers' = Elapse(timers)
    /\ UNCHANGED <<nodes, highlightedElements, tooltipElement, headStyles, scrolled, listeners,
                   viewport,
                   response, request, log, anonVars, restVars, panelVars>>

\* the user scrolls the page: a scroll event on the window
OnScroll ==
    \E y \in Scrolls \ {viewport.scrollY} :
        /\ SetW(dispatch([W EXCEPT !.view.scrollY = y], listeners, "scroll"))
        /\ UNCHANGED <<response, request, log, anonVars, restVars, panelVars>>

\* the user resizes the window: a resize event on the window
OnResize ==
    \E width \in Widths \ {viewport.innerWidth} :
        /\ SetW(dispatch([W EXCEPT !.view.innerWidth = width], listeners, "resize"))
        /\ UNCHANGED <<response, request, log, anonVars, restVars, panelVars>>

Next ==
    \/ OnScanPage
    \/ OnHighlightRisks
    \/ OnClearHighlights
    \/ OnScrollToText
    \/ TimerFires
    \/ Tick

Spec == Init /\ [][Next]_vars

\* the content script under the events of the window; the timers of
\* scrollToAndPulse stay pending, the animation frames are served
NextBadge ==
    \/ OnHighlightRisks
    \/ OnClearHighlights
    \/ OnScrollToText
    \/ TimerFires
    \/ OnScroll
    \/ OnResize

InitBadge ==
    /\ AnonInit
    /\ NoPanel
    /\ RestIdle
    /\ \E page \in Pages \cup {PageCell} :
         /\ nodes = Loaded(page).nodes
         /\ tooltipElement = Loaded(page).tip
    /\ highlightedElements = <<>>
    /\ headStyles = {}
    /\ timers = <<>>
    /\ scrolled = 0
    /\ listeners = <<>>
    /\ viewport = TopOfPage
    /\ response = NoResponse
    /\ request = NoRequest
    /\ log = <<>>

SpecBadge == InitBadge /\ [][NextBadge]_vars

\* the content script on a page whose host uses the class oli-badge itself
InitHost ==
    /\ AnonInit
    /\ NoPanel
    /\ RestIdle
    /\ nodes = Loaded(PageHostBadge).nodes
    /\ tooltipElement = Loaded(PageHostBadge).tip
    /\ highlightedElements = <<>>
    /\ headStyles = {}
    /\ timers = <<>>
    /\ scrolled = 0
    /\ listeners = <<>>
    /\ viewport = TopOfPage
    /\ response = NoResponse
    /\ request = NoRequest
    /\ log = <<>>

SpecHost == InitHost /\ [][Next]_vars

\* the content script on the pages with a count field and with a search box
InitLocator ==
    /\ AnonInit
    /\ NoPanel
    /\ RestIdle
    /\ \E page \in {PageCount, PageSearch} :
         /\ nodes = Loaded(page).nodes
         /\ tooltipElement = Loaded(page).tip
    /\ highlightedElements = <<>>
    /\ headStyles = {}
    /\ timers = <<>>
    /\ scrolled = 0
    /\ listeners = <<>>
    /\ viewport = TopOfPage
    /\ response = NoResponse
    /\ request = NoRequest
    /\ log = <<>>

SpecLocator == InitLocator /\ [][Next]_vars

\* the content script on a page with a field that has no box: messages,
\* timers, time and the events of the window
NextGeometry ==
    \/ OnHighlightRisks
    \/ OnClearHighlights
    \/ OnScrollToText
    \/ TimerFires
    \/ Tick
    \/ OnScroll
    \/ OnResize

InitGeometry ==
    /\ AnonInit
    /\ NoPanel
    /\ RestIdle
    /\ nodes = Loaded(PageHidden).nodes
    /\ tooltipElement = Loaded(PageHidden).tip
    /\ highlightedElements = <<>>
    /\ headStyles = {}
    /\ timers = <<>>
    /\ scrolled = 0
    /\ listeners = <<>>
    /\ viewport = TopOfPage
    /\ response = NoResponse
    /\ request = NoRequest
    /\ log = <<>>

SpecGeometry == InitGeometry /\ [][NextGeometry]_vars

(***************************************************************************)
(* THE SIDE PANEL                                                          *)
(*                                                                         *)
(* scanPage and analyzePDF are asynchronous: one action runs the handler   *)
(* up to its request to the backend, a second one runs it from the         *)
(* backend's answer to its end.  A message the handler defers by 300 ms    *)
(* waits in outbox and is delivered to the tab's listener later.           *)
(***************************************************************************)
MaxCycles == 2          \* analyses started in one run
MaxChecks == 2          \* checks in one answer of the backend
MaxClicks == 2          \* messages the tab receives in one run

S_sin == <<"1", "2", "3", "-", "4", "5", "6", "-", "7", "8", "9">>

\* the page of the tab: the funds field with its label, and a paragraph with
\* a social insurance number
PageClient ==
    << Elem("BODY", 0, <<2, 6>>),
       FormGroup(1, <<3, 5>>),
       Label(2, <<4>>, S_funds),
       TextNode(3, <<"F", "u", "n", "d", "s">>),
       Field(2, S_funds, S_20635),
       Elem("P", 1, <<7>>),
       TextNode(6, S_sin) >>

\* the text a PDF extraction returns
PdfTexts == {<<"Name:", "Jean">>, <<"987 654 321">>}

\* the placeholder sent for a PDF opened in Adobe Acrobat
AdobePlaceholder == <<"[PDF opened in Adobe Acrobat]">>

\* ComplianceCheck: highlight_text (<<>>: null), status, message
Checks ==
    { [highlight_text |-> FragFunds, status |-> "CRITIQUE", message |-> "m"],
      [highlight_text |-> FragFunds, status |-> "CONFORME", message |-> "m"],
      [highlight_text |-> <<>>, status |-> "AVERTISSEMENT", message |-> "m"] }

CheckLists == SeqsUpTo(Checks, MaxChecks)

\* the overall status the backend gives a list of checks
OverallOf(checks) ==
    IF \E k \in 1..Len(checks) : checks[k].status = "CRITIQUE" THEN "CRITIQUE"
    ELSE IF \E k \in 1..Len(checks) : checks[k].status = "AVERTISSEMENT" THEN "AVERTISSEMENT"
    ELSE "CONFORME"

\* the characters of a text node as one word
RECURSIVE JoinChars(_)
JoinChars(cs) == IF cs = <<>> THEN "" ELSE Head(cs) \o JoinChars(Tail(cs))

RECURSIVE WordsOf(_, _)
WordsOf(ns, order) ==
    IF order = <<>> THEN <<>>
    ELSE (IF ns[Head(order)].kind = "text" THEN <<JoinChars(ns[Head(order)].text)>> ELSE <<>>)
         \o WordsOf(ns, Tail(order))

\* document.body.innerText, one word per text node
innerText(ns) == WordsOf(ns, DocOrder(ns))

\* data.checks.filter(c => c.highlight_text && c.status !== 'CONFORME').map(...)
RECURSIVE highlightTexts(_)
highlightTexts(checks) ==
    IF checks = <<>> THEN <<>>
    ELSE (IF Head(checks).highlight_text # <<>> /\ Head(checks).status # "CONFORME"
          THEN <<[text |-> Head(checks).highlight_text, status |-> Head(checks).status]>>
          ELSE <<>>)
         \o highlightTexts(Tail(checks))

\* chrome.scripting.executeScript({files: ['content.js']}): the script runs
\* once per document
\* content.js run in the tab once more: behind the guard of its first lines
\* the closure has a registry and a tooltip of its own, and registers its
\* message listener
MutExecuteContentScript(loaded, n, w) ==
    [loaded |-> TRUE, listeners |-> n + 1,
     w |-> createTooltip([w EXCEPT !.hl = <<>>, !.tip = 0])]

executeContentScript(loaded, n, w) ==
    IF loaded
    THEN [loaded |-> TRUE, listeners |-> n, w |-> w]
    ELSE [loaded |-> TRUE, listeners |-> n + 1,
          w |-> createTooltip([w EXCEPT !.hl = <<>>, !.tip = 0])]

InjectContentScript == executeContentScript(injected, onMessageListeners, W).w

\* the message listeners of the tab after the injection
InjectedListeners == executeContentScript(injected, onMessageListeners, W).listeners

\* the tab has just been opened on PageClient; the content script is not in it
NewTab ==
    /\ nodes = PageClient
    /\ highlightedElements = <<>>
    /\ tooltipElement = 0
    /\ headStyles = {}
    /\ timers = <<>>
    /\ scrolled = 0
    /\ listeners = <<>>
    /\ viewport = TopOfPage
    /\ response = NoResponse
    /\ request = NoRequest
    /\ log = <<>>

InitPanel ==
    /\ AnonInit
    /\ RestIdle
    /\ NewTab
    /\ loading = FALSE
    /\ result = NoResult
    /\ error = FALSE
    /\ currentPdfUrl = FALSE
    /\ injected = FALSE
    /\ onMessageListeners = 0
    /\ pc = "idle"
    /\ sent = NothingSent
    /\ outbox = <<>>
    /\ cycles = 0

\* scanPage, up to the request: tabKind is "none" (no active tab), "page",
\* "pdf" or "adobe"; extracted is the outcome of pdfHandler.extractFromUrl
scanPage(tabKind, extracted, pdfText) ==
    /\ ~loading
    /\ pc = "idle"
    /\ cycles < MaxCycles
    /\ cycles' = cycles + 1
    /\ result' = NoResult
    /\ IF tabKind = "none"
       THEN /\ error' = TRUE
            /\ loading' = FALSE
            /\ UNCHANGED <<currentPdfUrl, pc, sent>>
       ELSE /\ error' = FALSE
            /\ loading' = TRUE
            /\ currentPdfUrl' = (tabKind # "page")
            /\ pc' = "scanPage"
            /\ sent' = [fn |-> "scanPage",
                        text |-> IF tabKind = "page" THEN innerText(nodes)
                                 ELSE IF extracted THEN pdfText
                                 ELSE IF tabKind = "adobe" THEN AdobePlaceholder
                                 ELSE innerText(nodes)]
    /\ UNCHANGED <<injected, onMessageListeners, outbox, anonVars, restVars, csVars>>

ScanPage ==
    \E tabKind \in {"none", "page", "pdf", "adobe"}, extracted \in BOOLEAN, pdfText \in PdfTexts :
        scanPage(tabKind, extracted, pdfText)

\* scanPage, from the answer of the backend to the end
scanPageAnswer(ok, checks) ==
    /\ pc = "scanPage"
    /\ pc' = "idle"
    /\ loading' = FALSE
    /\ IF ~ok
       THEN /\ error' = TRUE
            /\ UNCHANGED <<result, injected, onMessageListeners, outbox, csVars>>
       ELSE /\ result' = [present |-> TRUE, checks |-> checks,
                          overall_status |-> OverallOf(checks), from |-> "scanPage"]
            /\ UNCHANGED error
            /\ IF highlightTexts(checks) # <<>>
               THEN /\ SetW(InjectContentScript)
                    /\ injected' = TRUE
                    /\ onMessageListeners' = InjectedListeners
                    /\ outbox' = Append(outbox, HighlightRisksMsg(highlightTexts(checks),
                                                                  OverallOf(checks)))
                    /\ UNCHANGED <<response, request, log>>
               ELSE UNCHANGED <<injected, onMessageListeners, outbox, csVars>>
    /\ UNCHANGED <<currentPdfUrl, sent, cycles, anonVars, restVars>>

ScanPageAnswer ==
    \E ok \in BOOLEAN, checks \in CheckLists : scanPageAnswer(ok, checks)

\* the 300 ms timer of a deferred message fires: chrome.tabs.sendMessage
Deliver ==
    /\ outbox # <<>>
    /\ outbox' = Tail(outbox)
    /\ Receive(Head(outbox))
    /\ UNCHANGED <<loading, result, error, currentPdfUrl, injected, onMessageListeners, pc, sent,
                   cycles, anonVars, restVars>>

\* analyzePDF, up to the request; its buttons are shown while there is no
\* result, no error and nothing loading
analyzePDF(extracted, pdfText) ==
    /\ ~result.present /\ ~loading /\ ~error
    /\ pc = "idle"
    /\ cycles < MaxCycles
    /\ cycles' = cycles + 1
    /\ result' = NoResult
    /\ IF extracted
       THEN /\ loading' = TRUE
            /\ currentPdfUrl' = TRUE
            /\ pc' = "analyzePDF"
            /\ sent' = [fn |-> "analyzePDF", text |-> pdfText]
            /\ UNCHANGED error
       ELSE /\ error' = TRUE
            /\ currentPdfUrl' = FALSE
            /\ loading' = FALSE
            /\ UNCHANGED <<pc, sent>>
    /\ UNCHANGED <<injected, onMessageListeners, outbox, anonVars, restVars, csVars>>

AnalyzePDF ==
    \E extracted \in BOOLEAN, pdfText \in PdfTexts : analyzePDF(extracted, pdfText)

\* analyzePDF, from the answer of the backend to the end
analyzePDFAnswer(ok, checks) ==
    /\ pc = "analyzePDF"
    /\ pc' = "idle"
    /\ loading' = FALSE
    /\ IF ok
       THEN /\ result' = [present |-> TRUE, checks |-> checks,
                          overall_status |-> OverallOf(checks), from |-> "analyzePDF"]
            /\ UNCHANGED <<error, currentPdfUrl>>
       ELSE /\ error' = TRUE
            /\ currentPdfUrl' = FALSE
            /\ UNCHANGED result
    /\ UNCHANGED <<injected, onMessageListeners, sent, outbox, cycles, anonVars, restVars, csVars>>

AnalyzePDFAnswer ==
    \E ok \in BOOLEAN, checks \in CheckLists : analyzePDFAnswer(ok, checks)

\* resetAnalysis ("New Analysis", shown with a result): the message reaches
\* the tab only if the content script is in it
resetAnalysis ==
    /\ result.present
    /\ Len(log) < MaxClicks
    /\ result' = NoResult
    /\ error' = FALSE
    /\ currentPdfUrl' = FALSE
    /\ IF injected THEN Handled(ClearHighlightsMsg, CLEAR_HIGHLIGHTS(W)) ELSE UNCHANGED csVars
    /\ UNCHANGED <<loading, injected, onMessageListeners, pc, sent, outbox, cycles, anonVars, restVars>>

\* scrollToHighlight, called by the card of check k (clickable when the check
\* has a highlight_text and no PDF is analysed)
scrollToHighlight(k) ==
    LET check == result.checks[k]
        msg == ScrollToTextMsg(check.highlight_text, check.status, check.message)
    IN  /\ check.highlight_text # <<>>
        /\ ~currentPdfUrl
        /\ Len(log) + Len(outbox) < MaxClicks
        /\ IF injected
           THEN /\ Handled(msg, SCROLL_TO_TEXT(W, msg.text, msg.status, msg.message))
                /\ UNCHANGED <<injected, onMessageListeners, outbox>>
           ELSE /\ SetW(InjectContentScript)
                /\ injected' = TRUE
                /\ onMessageListeners' = InjectedListeners
                /\ outbox' = Append(outbox, msg)
                /\ UNCHANGED <<response, request, log>>
        /\ UNCHANGED <<loading, result, error, currentPdfUrl, pc, sent, cycles, anonVars, restVars>>

ScrollToHighlight ==
    /\ result.present
    /\ \E k \in 1..Len(result.checks) : scrollToHighlight(k)

NextPanel ==
    \/ ScanPage
    \/ ScanPageAnswer
    \/ Deliver
    \/ AnalyzePDF
    \/ AnalyzePDFAnswer
    \/ resetAnalysis
    \/ ScrollToHighlight
    \/ TimerFires
    \/ Tick

SpecPanel == InitPanel /\ [][NextPanel]_vars

(***************************************************************************)
(* The loading state of the side panel (scanPage, analyzePDF: App.tsx)     *)
(*                                                                         *)
(* A run is followed from its start to its finally block, as far as        *)
(* loading and loadingMessage go.  Time is counted in units of 1500 ms.    *)
(***************************************************************************)
MaxRuns == 3            \* analyses started in one run of the panel

ProgressTimer(left, message) == [left |-> left, message |-> message]

\* finally { setLoading(false); setLoadingMessage(''); }
finallyBlock ==
    /\ loading' = FALSE
    /\ loadingMessage' = ""
    /\ pc' = "idle"

\* scanPage up to its first await that can take time; with no active tab it
\* throws at once and runs its finally block
scanPageStart(analysisMode, tabKind) ==
    /\ ~loading
    /\ pc = "idle"
    /\ cycles < MaxRuns
    /\ cycles' = cycles + 1
    /\ progressTimers' =
          progressTimers \o
          (IF analysisMode = "llm"
           THEN <<ProgressTimer(1, "Retrieving legal context..."),
                  ProgressTimer(2, "AI analysis in progress...")>>
           ELSE <<>>)
    /\ IF tabKind = "none"
       THEN finallyBlock
       ELSE /\ loading' = TRUE
            /\ pc' = "scanPage"
            /\ loadingMessage' = IF tabKind = "pdf" THEN "Extracting PDF..."
                                 ELSE IF analysisMode = "llm" THEN "Extracting content..."
                                 ELSE loadingMessage
    /\ UNCHANGED <<result, error, currentPdfUrl, injected, onMessageListeners, sent, outbox>>
    /\ UNCHANGED <<anonVars, csVars, scannerVars, tooltipVars, snapshotVars, pdfVars>>

ScanPageStart ==
    \E analysisMode \in {"llm", "fast"}, tabKind \in {"none", "page", "pdf"} :
        scanPageStart(analysisMode, tabKind)

\* analyzePDF up to its request to the backend; when the extraction fails it
\* throws and runs its finally block
analyzePDFStart(extracted) ==
    /\ ~loading
    /\ pc = "idle"
    /\ cycles < MaxRuns
    /\ cycles' = cycles + 1
    /\ IF extracted
       THEN /\ loading' = TRUE
            /\ pc' = "analyzePDF"
            /\ loadingMessage' = "Retrieving legal context..."
            /\ progressTimers' =
                  Append(progressTimers, ProgressTimer(1, "AI analysis in progress..."))
       ELSE /\ finallyBlock
            /\ UNCHANGED progressTimers
    /\ UNCHANGED <<result, error, currentPdfUrl, injected, onMessageListeners, sent, outbox>>
    /\ UNCHANGED <<anonVars, csVars, scannerVars, tooltipVars, snapshotVars, pdfVars>>

AnalyzePDFStart == \E extracted \in BOOLEAN : analyzePDFStart(extracted)

\* the run ends: the backend has answered or an await has thrown, and the
\* finally block runs
RunEnds ==
    /\ pc \in {"scanPage", "analyzePDF"}
    /\ finallyBlock
    /\ UNCHANGED <<result, error, currentPdfUrl, injected, onMessageListeners, sent, outbox,
                   cycles>>
    /\ UNCHANGED <<progressTimers, anonVars, csVars, scannerVars, tooltipVars, snapshotVars, pdfVars>>

\* a progressive-message timer is due: setLoadingMessage(message)
ProgressTimerFires ==
    \E k \in 1..Len(progressTimers) :
        /\ progressTimers[k].left = 0
        /\ \A j \in 1..(k - 1) : progressTimers[j].left # 0
        /\ loadingMessage' = progressTimers[k].message
        /\ progressTimers' = SubSeq(progressTimers, 1, k - 1)
                               \o SubSeq(progressTimers, k + 1, Len(progressTimers))
        /\ UNCHANGED <<anonVars, csVars, panelVars, scannerVars, tooltipVars, snapshotVars, pdfVars>>

\* 1500 ms pass; a due timer fires before time moves on
RECURSIVE ElapseProgress(_)
ElapseProgress(ts) ==
    IF ts = <<>> THEN <<>>
    ELSE <<ProgressTimer(Head(ts).left - 1, Head(ts).message)>> \o ElapseProgress(Tail(ts))

ProgressTick ==
    /\ progressTimers # <<>>
    /\ \A k \in 1..Len(progressTimers) : progressTimers[k].left > 0
    /\ progressTimers' = ElapseProgress(progressTimers)
    /\ UNCHANGED <<loadingMessage, anonVars, csVars, panelVars, scannerVars, tooltipVars,
                   snapshotVars, pdfVars>>

NextLoading ==
    \/ ScanPageStart
    \/ AnalyzePDFStart
    \/ RunEnds
    \/ ProgressTimerFires
    \/ ProgressTick

SpecLoading == InitPanel /\ [][NextLoading]_vars

(***************************************************************************)
(* The PDF handler (extension/src/lib/pdf-handler.ts)                      *)
(*                                                                         *)
(* A document is the sequence of its pages; a page says what getPage,      *)
(* getTextContent and getAnnotations do for it.                            *)
(***************************************************************************)
MaxPages == 2           \* pages of a document

PdfPage(getPage, getTextContent, items, getAnnotations, widgets) ==
    [getPage |-> getPage, getTextContent |-> getTextContent, items |-> items,
     getAnnotations |-> getAnnotations, widgets |-> widgets]

PdfPages ==
    {PdfPage(FALSE, FALSE, <<>>, FALSE, 0),
     PdfPage(TRUE, FALSE, <<>>, FALSE, 0),
     PdfPage(TRUE, TRUE, <<<<"N", "a", "m", "e", ":">>, <<" ", "J", "e", "a", "n", " ">>>>, TRUE, 1),
     PdfPage(TRUE, TRUE, <<<<"5", " ", " ", "0", "0", "0">>, <<"$">>>>, FALSE, 0),
     PdfPage(TRUE, TRUE, <<>>, TRUE, 0)}

PdfDocuments == SeqsUpTo(PdfPages, MaxPages)

\* Array.prototype.join(sep)
RECURSIVE Join(_, _)
Join(parts, sep) ==
    IF parts = <<>> THEN <<>>
    ELSE IF Len(parts) = 1 THEN parts[1]
    ELSE parts[1] \o sep \o Join(Tail(parts), sep)

\* items.map(item => item.str).join(' ').replace(/\s+/g, ' ').trim()
pageTextOf(items) == Trim(CollapseWs(Join(items, <<" ">>)))

S_ExtractionFailed ==
    <<"[", "E", "x", "t", "r", "a", "c", "t", "i", "o", "n", " ", "f", "a", "i", "l", "e", "d", "]">>

\* the widgets of a page: formFields.push({page, name: field_<page>_<length>, ...})
RECURSIVE pushWidgets(_, _, _)
pushWidgets(formFields, pageNum, n) ==
    IF n = 0 THEN formFields
    ELSE pushWidgets(Append(formFields, [page |-> pageNum, name |-> Len(formFields)]),
                     pageNum, n - 1)

\* the loop of an extraction that leaves a failed page out of content
RECURSIVE MutExtractPages(_, _, _, _, _)
MutExtractPages(pdf, pageNum, content, formFields, textParts) ==
    IF pageNum > Len(pdf)
    THEN PDFExtractionResult(TRUE, Len(pdf), content, formFields, Join(textParts, <<"\n", "\n">>))
    ELSE LET page == pdf[pageNum]
         IN  IF page.getPage /\ page.getTextContent
             THEN MutExtractPages(pdf, pageNum + 1,
                      Append(content, [page |-> pageNum, text |-> pageTextOf(page.items)]),
                      IF page.getAnnotations
                      THEN pushWidgets(formFields, pageNum, page.widgets) ELSE formFields,
                      Append(textParts, pageTextOf(page.items)))
             ELSE MutExtractPages(pdf, pageNum + 1, content, formFields, textParts)

\* extractFromDocument: the loop over the pages from pageNum on, and the result
RECURSIVE extractPages(_, _, _, _, _)
extractPages(pdf, pageNum, content, formFields, textParts) ==
    IF pageNum > Len(pdf)
    THEN PDFExtractionResult(TRUE, Len(pdf), content, formFields, Join(textParts, <<"\n", "\n">>))
    ELSE LET page == pdf[pageNum]
         IN  IF page.getPage /\ page.getTextContent
             THEN extractPages(pdf, pageNum + 1,
                      Append(content, [page |-> pageNum, text |-> pageTextOf(page.items)]),
                      IF page.getAnnotations
                      THEN pushWidgets(formFields, pageNum, page.widgets) ELSE formFields,
                      Append(textParts, pageTextOf(page.items)))
             ELSE extractPages(pdf, pageNum + 1,
                      Append(content, [page |-> pageNum, text |-> S_ExtractionFailed]),
                      formFields, textParts)

\* an extraction that leaves the failed pages out of content
MutExtractFromDocument(pdf) == MutExtractPages(pdf, 1, <<>>, <<>>, <<>>)

\* extractFromDocument(pdf)
extractFromDocument(pdf) == extractPages(pdf, 1, <<>>, <<>>, <<>>)

\* what getDocument(...) and loadingTask.promise do: the call throws, the
\* promise rejects, or the document is loaded
Loadings == {"throws", "rejects", "loads"}

\* the body of extractFromUrl and of extractFromBuffer: try { ... } catch { ... }
extractFrom(outcome, pdf) ==
    IF outcome = "loads" THEN extractFromDocument(pdf)
    ELSE PDFExtractionResult(FALSE, 0, <<>>, <<>>, <<>>)

extractFromUrl ==
    \E outcome \in Loadings, pdf \in PdfDocuments :
        /\ pdfCall' = [fn |-> "extractFromUrl", loading |-> outcome, pdf |-> pdf,
                       result |-> extractFrom(outcome, pdf)]
        /\ UNCHANGED <<anonVars, csVars, panelVars, scannerVars, tooltipVars, snapshotVars,
                       loadingVars>>

extractFromBuffer ==
    \E outcome \in Loadings, pdf \in PdfDocuments :
        /\ pdfCall' = [fn |-> "extractFromBuffer", loading |-> outcome, pdf |-> pdf,
                       result |-> extractFrom(outcome, pdf)]
        /\ UNCHANGED <<anonVars, csVars, panelVars, scannerVars, tooltipVars, snapshotVars,
                       loadingVars>>

(***************************************************************************)
(* REDACTION ENGINE                                                        *)
(*                                                                         *)
(* A string is a sequence of words.  The words of the vocabulary are       *)
(* classified by the regular expressions of the constructor; a regex       *)
(* match is a one-word sequence, a proper name may span several words.     *)
(***************************************************************************)
MaxWords == 2

Vocab == {"123-456-789", "987 654 321", "Name:", "Jean"}

\* the patterns in declaration order (Object.entries order)
patternOrder ==
    <<"sin", "passport", "email", "phone", "postalCode", "creditCard",
      "date", "uci", "bankAccount", "ip">>

\* whether the pattern of the given type matches the word
patterns(type, w) ==
    CASE type = "sin"         -> w \in {"123-456-789", "987 654 321"}
      [] type = "email"       -> w = "a@b.ca"
      [] type = "bankAccount" -> FALSE
      [] OTHER                -> FALSE

\* type.toUpperCase().replace(/[^A-Z]/g, '_')
typeLabel(type) ==
    CASE type = "sin"         -> "SIN"
      [] type = "passport"    -> "PASSPORT"
      [] type = "email"       -> "EMAIL"
      [] type = "phone"       -> "PHONE"
      [] type = "postalCode"  -> "POSTALCODE"
      [] type = "creditCard"  -> "CREDITCARD"
      [] type = "date"        -> "DATE"
      [] type = "uci"         -> "UCI"
      [] type = "ip"          -> "IP"
      [] type = "PERSON"      -> "PERSON"
      [] type = "field_name"  -> "FIELD_NAME"
      [] type = "field_NAS"   -> "FIELD_NAS"
      [] type = "field_email" -> "FIELD_EMAIL"
      [] OTHER                -> "FIELD_"

\* the engine's mutable state as one value
AnonState == [rev |-> reverseMap, tok |-> tokenMap, ctr |-> tokenCounter, log |-> anonLog]

\* the token text for a new entry
MutTokenText(type, n) == "<" \o typeLabel(type) \o ">"

TokenText(type, n) == "<" \o typeLabel(type) \o "_" \o ToString(n) \o ">"

\* a mutant of createToken: no look-up of an already tokenized value
MutCreateToken(a, original, type) ==
    LET token == TokenText(type, a.ctr + 1)
    IN  [a |-> [rev |-> [o \in (DOMAIN a.rev) \cup {original} |->
                            IF o = original THEN token ELSE a.rev[o]],
                tok |-> [t \in (DOMAIN a.tok) \cup {token} |->
                            IF t = token THEN [original |-> original, type |-> type, token |-> token]
                            ELSE a.tok[t]],
                ctr |-> a.ctr + 1,
                log |-> a.log \cup {[original |-> original, type |-> type, token |-> token]}],
         token |-> token]

\* createToken(original, type): returns the new engine state and the token
createToken(a, original, type) ==
    IF original \in DOMAIN a.rev
    THEN [a |-> [a EXCEPT !.log = @ \cup {[original |-> original, type |-> type,
                                           token |-> a.rev[original]]}],
          token |-> a.rev[original]]
    ELSE LET token == TokenText(type, a.ctr + 1)
         IN  [a |-> [rev |-> [o \in (DOMAIN a.rev) \cup {original} |->
                                 IF o = original THEN token ELSE a.rev[o]],
                     tok |-> [t \in (DOMAIN a.tok) \cup {token} |->
                                 IF t = token THEN [original |-> original, type |-> type, token |-> token]
                                 ELSE a.tok[t]],
                     ctr |-> a.ctr + 1,
                     log |-> a.log \cup {[original |-> original, type |-> type, token |-> token]}],
              token |-> token]

\* text.replace(pattern, match => createToken(match, type)), left to right
RECURSIVE replacePattern(_, _, _, _)
replacePattern(a, text, type, i) ==
    IF i > Len(text) THEN [a |-> a, text |-> text]
    ELSE IF patterns(type, text[i])
         THEN LET r == createToken(a, <<text[i]>>, type)
              IN  replacePattern(r.a, [text EXCEPT ![i] = r.token], type, i + 1)
         ELSE replacePattern(a, text, type, i + 1)

\* the for-loop over Object.entries(this.patterns), bankAccount skipped
RECURSIVE applyPatterns(_, _, _)
applyPatterns(a, text, k) ==
    IF k > Len(patternOrder) THEN [a |-> a, text |-> text]
    ELSE IF patternOrder[k] = "bankAccount" THEN applyPatterns(a, text, k + 1)
         ELSE LET r == replacePattern(a, text, patternOrder[k], 1)
              IN  applyPatterns(r.a, r.text, k + 1)

\* the name indicators and the words that look like a capitalised name
nameIndicators == {"Name:"}
Capitalised(w) == w \in {"Jean"}

\* length of the run of capitalised words starting at position i
RECURSIVE NameRun(_, _)
NameRun(text, i) ==
    IF i <= Len(text) /\ Capitalised(text[i]) THEN 1 + NameRun(text, i + 1) ELSE 0

\* anonymizeProperNouns: indicator followed by a run of capitalised words
RECURSIVE anonymizeProperNouns(_, _, _)
anonymizeProperNouns(a, text, i) ==
    IF i > Len(text) THEN [a |-> a, text |-> text]
    ELSE IF text[i] \in nameIndicators /\ NameRun(text, i + 1) > 0
         THEN LET n == NameRun(text, i + 1)
                  r == createToken(a, SubSeq(text, i + 1, i + n), "PERSON")
                  t == SubSeq(text, 1, i) \o <<r.token>> \o SubSeq(text, i + n + 1, Len(text))
              IN  anonymizeProperNouns(r.a, t, i + 2)
         ELSE anonymizeProperNouns(a, text, i + 1)

anonymizeString(a, text) ==
    LET r == applyPatterns(a, text, 1)
    IN  anonymizeProperNouns(r.a, r.text, 1)

\* sensitive-key test: lower-cased key contains an entry of sensitiveFields
sensitiveFields ==
    {"name", "nom", "prenom", "firstname", "lastname", "email", "courriel",
     "phone", "telephone", "tel", "address", "adresse", "sin", "nas", "ssn",
     "passport", "passeport", "dob", "dateofbirth", "datenaissance",
     "creditcard", "carte", "account", "compte", "uci", "clientid"}

\* key.toLowerCase() and the substring test, for the keys of the model
isSensitive(key) ==
    CASE key = "name"    -> TRUE   \* contains "name"
      [] key = "NAS"     -> TRUE   \* "nas"
      [] key = "email"   -> TRUE
      [] key = "note"    -> FALSE
      [] key = "amount"  -> FALSE
      [] key = "inner"   -> FALSE
      [] OTHER           -> FALSE

\* a value of a record: t = "str" (s: a string), "num" (n), "obj" (o: entries)
StrV(s) == [t |-> "str", s |-> s, n |-> 0, o |-> <<>>]
NumV(n) == [t |-> "num", s |-> <<>>, n |-> n, o |-> <<>>]
ObjV(o) == [t |-> "obj", s |-> <<>>, n |-> 0, o |-> o]

\* anonymizeObject: entries are <<key, value>> in Object.entries order
RECURSIVE anonymizeObject(_, _)
\* an anonymizeObject that copies nested records as they are
MutAnonymizeObject(a, obj) ==
    IF obj = <<>> THEN [a |-> a, obj |-> <<>>]
    ELSE LET key   == obj[1][1]
             value == obj[1][2]
             first ==
                IF isSensitive(key) /\ value.t = "str"
                THEN LET r == createToken(a, value.s, "field_" \o key)
                     IN  [a |-> r.a, v |-> StrV(<<r.token>>)]
                ELSE IF value.t = "str"
                THEN LET r == anonymizeString(a, value.s)
                     IN  [a |-> r.a, v |-> StrV(r.text)]
                ELSE [a |-> a, v |-> value]
             rest  == anonymizeObject(first.a, Tail(obj))
         IN  [a |-> rest.a, obj |-> <<<<key, first.v>>>> \o rest.obj]

anonymizeObject(a, obj) ==
    IF obj = <<>> THEN [a |-> a, obj |-> <<>>]
    ELSE LET key   == obj[1][1]
             value == obj[1][2]
             first ==
                IF isSensitive(key) /\ value.t = "str"
                THEN LET r == createToken(a, value.s, "field_" \o key)
                     IN  [a |-> r.a, v |-> StrV(<<r.token>>)]
                ELSE IF value.t = "obj"
                THEN LET r == anonymizeObject(a, value.o)
                     IN  [a |-> r.a, v |-> ObjV(r.obj)]
                ELSE IF value.t = "str"
                THEN LET r == anonymizeString(a, value.s)
                     IN  [a |-> r.a, v |-> StrV(r.text)]
                ELSE [a |-> a, v |-> value]
             rest  == anonymizeObject(first.a, Tail(obj))
         IN  [a |-> rest.a, obj |-> <<<<key, first.v>>>> \o rest.obj]

Texts == SeqsUpTo(Vocab, MaxWords)

Objects ==
    { <<<<"name", StrV(<<"Jean">>)>>, <<"note", StrV(<<"Name:", "Jean">>)>>>>,
      <<<<"NAS", StrV(<<"123-456-789">>)>>, <<"amount", NumV(5)>>>>,
      <<<<"inner", ObjV(<<<<"email", StrV(<<"a@b.ca">>)>>, <<"note", StrV(<<"987 654 321">>)>>>>)>>>>,
      <<<<"name", ObjV(<<<<"name", StrV(<<"Jean">>)>>, <<"amount", NumV(5)>>>>)>>,
        <<"NAS", NumV(5)>>>>,
      <<<<"inner", ObjV(<<<<"inner", ObjV(<<<<"NAS", StrV(<<"987 654 321">>)>>>>)>>>>)>>>> }

\* no page is involved
NoPage ==
    /\ nodes = <<>>
    /\ highlightedElements = <<>>
    /\ tooltipElement = 0
    /\ headStyles = {}
    /\ timers = <<>>
    /\ scrolled = 0
    /\ listeners = <<>>
    /\ viewport = TopOfPage
    /\ response = NoResponse
    /\ request = NoRequest
    /\ log = <<>>

InitAnon == AnonInit /\ NoPage /\ NoPanel /\ RestIdle

SetAnon(a) ==
    /\ tokenMap' = a.tok
    /\ reverseMap' = a.rev
    /\ tokenCounter' = a.ctr
    /\ anonLog' = a.log

\* anonymize(data) with a string; the returned text goes to the caller, the
\* tokens it holds are those createToken logged
AnonymizeStringCall ==
    \E text \in Texts :
        LET r == anonymizeString(AnonState, text)
        IN  SetAnon(r.a) /\ UNCHANGED <<anonOut, csVars, panelVars, restVars>>

\* anonymize(data) with an object
AnonymizeObjectCall ==
    \E obj \in Objects :
        LET r == anonymizeObject(AnonState, obj)
        IN  SetAnon(r.a) /\ anonOut' = [in |-> obj, out |-> r.obj] /\ UNCHANGED <<csVars, panelVars, restVars>>

\* reset(): a new session
reset ==
    /\ tokenMap' = <<>>
    /\ reverseMap' = <<>>
    /\ tokenCounter' = 0
    /\ anonLog' = {}
    /\ UNCHANGED <<anonOut, csVars, panelVars, restVars>>

AnonNext == AnonymizeStringCall \/ AnonymizeObjectCall \/ reset

SpecAnon == InitAnon /\ [][AnonNext]_vars

\* a session of the panel in which the redaction engine, the singleton the
\* module exports, is used: values are tokenized between the analyses
MaxSessionTokens == 1

SessionTokenize ==
    /\ tokenCounter < MaxSessionTokens
    /\ AnonymizeStringCall

NextSession ==
    \/ ScanPage
    \/ ScanPageAnswer
    \/ Deliver
    \/ resetAnalysis
    \/ SessionTokenize
    \/ reset

SpecSession == InitPanel /\ [][NextSession]_vars

(***************************************************************************)
(* The DOM scanner (extension/src/lib/dom-scanner.ts)                      *)
(***************************************************************************)
BurstSize == 10         \* qualifying mutations of one burst
MaxInputs == 3          \* 'input' events followed
MaxBatch == 2           \* mutation records handed to one observer callback
MaxFieldChanges == 2    \* field events followed
DebounceWait == 5       \* the 500 ms of the 'input' listener, in 100 ms

\* the records the observer can deliver under observerConfig: child lists of
\* the subtree and the attributes value, src and data-value
ElementNode(tagName) == [nodeType |-> 1, tagName |-> tagName]

TextRecordNode == [nodeType |-> 3, tagName |-> ""]

MutationRecord(type, target, addedNodes, removedNodes) ==
    [type |-> type, target |-> ElementNode(target),
     addedNodes |-> addedNodes, removedNodes |-> removedNodes]

MutationRecords ==
    {MutationRecord("attributes", "INPUT", <<>>, <<>>),
     MutationRecord("attributes", "IMG", <<>>, <<>>),
     MutationRecord("childList", "DIV", <<>>, <<ElementNode("INPUT")>>),
     MutationRecord("childList", "DIV", <<>>, <<TextRecordNode>>),
     MutationRecord("childList", "FORM", <<ElementNode("INPUT")>>, <<>>),
     MutationRecord("childList", "BODY", <<TextRecordNode, ElementNode("TABLE")>>, <<>>),
     MutationRecord("childList", "BODY", <<ElementNode("DIV")>>, <<>>)}

Batches == {b \in SeqsUpTo(MutationRecords, MaxBatch) : b # <<>>}

relevantTags == {"INPUT", "SELECT", "TEXTAREA", "FORM", "TABLE"}

isRelevantMutation(mutation) ==
    IF mutation.type = "childList"
    THEN \E k \in 1..Len(mutation.addedNodes) :
            /\ mutation.addedNodes[k].nodeType = 1
            /\ mutation.addedNodes[k].tagName \in relevantTags
    ELSE mutation.type = "attributes"

\* handleDOMChange(mutation): one 'oli-dom-change' event, dispatched at once
handleDOMChange(n) == n + 1

\* the observer callback: mutations.forEach(...); the number of events dispatched
RECURSIVE observerCallback(_, _)
observerCallback(mutations, n) ==
    IF mutations = <<>> THEN n
    ELSE observerCallback(Tail(mutations),
                          IF isRelevantMutation(Head(mutations)) THEN handleDOMChange(n) ELSE n)

\* the targets of the events: two fields of the form and an element that is
\* not a field
EventTargets ==
    {[tagName |-> "INPUT", name |-> "funds"],
     [tagName |-> "SELECT", name |-> "status"],
     [tagName |-> "DIV", name |-> ""]}

isFormElement(element) == element.tagName \in {"INPUT", "SELECT", "TEXTAREA"}

\* debounce(func, wait)(e): the pending timer is cleared and a new one is set;
\* its callback is func(e), with the target of this event
debounce(target) ==
    [left |-> DebounceWait, form |-> isFormElement(target), pending |-> TRUE,
     field |-> target.name]

\* onFieldChange(field): one 'oli-field-change' event
onFieldChange(n) == n + 1

NoScan == UNCHANGED <<anonVars, csVars, panelVars, tooltipVars, snapshotVars, pdfVars, loadingVars>>

\* init(): setupMutationObserver() and setupFormListeners()
scannerInit ==
    /\ ~mutationObserver
    /\ ~formListeners
    /\ mutationObserver' = TRUE
    /\ formListeners' = TRUE
    /\ UNCHANGED <<debounceTimeout, domChanges, fieldChanges, burst, windowLeft, awaited, inputEvents>>
    /\ NoScan

\* the observer hands a batch of records to its callback; the first qualifying
\* mutation after a closed window begins a burst and opens the window
\* the callback has run on the batch
Delivered(mutations) ==
    LET qualifying == observerCallback(mutations, 0)
        begins == windowLeft = 0 /\ qualifying > 0
    IN  /\ (IF begins THEN 0 ELSE burst) + qualifying <= BurstSize
        /\ burst' = (IF begins THEN 0 ELSE burst) + qualifying
        /\ domChanges' = observerCallback(mutations, IF begins THEN 0 ELSE domChanges)
        /\ windowLeft' = IF begins THEN DebounceWait ELSE windowLeft
        /\ UNCHANGED <<mutationObserver, formListeners, debounceTimeout, fieldChanges, awaited,
                       inputEvents>>
        /\ NoScan

ObserverCallback ==
    \E mutations \in Batches :
        /\ mutationObserver
        /\ Delivered(mutations)

\* an 'input' event on the document: the debounced listener
InputEvent ==
    \E target \in EventTargets :
        /\ formListeners
        /\ fieldChanges < MaxFieldChanges
        /\ inputEvents < MaxInputs
        /\ inputEvents' = inputEvents + 1
        /\ debounceTimeout' = debounce(target)
        /\ awaited' = IF isFormElement(target) THEN awaited \cup {target.name} ELSE awaited
        /\ UNCHANGED <<mutationObserver, formListeners, domChanges, fieldChanges, burst,
                       windowLeft>>
        /\ NoScan

\* a 'change' event on the document: the listener is not debounced
ChangeEvent ==
    \E target \in EventTargets :
        /\ formListeners
        /\ fieldChanges < MaxFieldChanges
        /\ fieldChanges' = IF isFormElement(target) THEN onFieldChange(fieldChanges)
                           ELSE fieldChanges
        /\ awaited' = IF isFormElement(target) THEN awaited \ {target.name} ELSE awaited
        /\ UNCHANGED <<mutationObserver, formListeners, debounceTimeout, domChanges, burst,
                       windowLeft, inputEvents>>
        /\ NoScan

\* the timer of debounce() is due: func(e); onFieldChange reads the value the
\* field has now
DebounceFires ==
    /\ debounceTimeout.pending
    /\ debounceTimeout.left = 0
    /\ fieldChanges' = IF debounceTimeout.form THEN onFieldChange(fieldChanges)
                       ELSE fieldChanges
    /\ awaited' = IF debounceTimeout.form THEN awaited \ {debounceTimeout.field} ELSE awaited
    /\ debounceTimeout' = NoTimeout
    /\ UNCHANGED <<mutationObserver, formListeners, domChanges, burst, windowLeft, inputEvents>>
    /\ NoScan

\* 100 ms pass; a due timer fires before time moves on
ScanTick ==
    /\ debounceTimeout.pending \/ windowLeft > 0
    /\ debounceTimeout.pending => debounceTimeout.left > 0
    /\ debounceTimeout' = IF debounceTimeout.pending
                          THEN [debounceTimeout EXCEPT !.left = @ - 1]
                          ELSE debounceTimeout
    /\ windowLeft' = IF windowLeft > 0 THEN windowLeft - 1 ELSE 0
    /\ UNCHANGED <<mutationObserver, formListeners, domChanges, fieldChanges, burst, awaited,
                   inputEvents>>
    /\ NoScan

\* destroy(): the observer is disconnected and the pending timer cleared; the
\* document listeners stay
destroy ==
    /\ mutationObserver
    /\ mutationObserver' = FALSE
    /\ debounceTimeout' = NoTimeout
    /\ UNCHANGED <<formListeners, domChanges, fieldChanges, burst, windowLeft, awaited, inputEvents>>
    /\ NoScan

InitScanner ==
    /\ AnonInit /\ NoPage /\ NoPanel
    /\ NoScanner /\ NoTooltip /\ NoSnapshot /\ NoLoading /\ NoPdf

NextScanner ==
    \/ scannerInit
    \/ ObserverCallback
    \/ InputEvent
    \/ ChangeEvent
    \/ DebounceFires
    \/ ScanTick
    \/ destroy

SpecScanner == InitScanner /\ [][NextScanner]_vars

\* the form listeners of a scanner that is not destroyed: a timer that is due
\* fires, and time passes
NextDebounce ==
    \/ scannerInit
    \/ InputEvent
    \/ ChangeEvent
    \/ DebounceFires
    \/ ScanTick

SpecDebounce ==
    InitScanner /\ [][NextDebounce]_vars /\ WF_vars(DebounceFires) /\ WF_vars(ScanTick)

(***************************************************************************)
(* The scan snapshot (DOMScanner.scanCurrentPage, dom-scanner.ts)          *)
(***************************************************************************)
MinBlockLength == 5         \* text.length > 5
MaxBlockLength == 1000      \* text.length < 1000

\* the blocks of the data containers: the trimmed text of each, if its
\* length is in the band
RECURSIVE containerBlocks(_, _)
containerBlocks(ns, containers) ==
    IF containers = <<>> THEN <<>>
    ELSE LET text == Trim(textContent(ns, Head(containers)))
         IN  (IF text # <<>> /\ Len(text) > MinBlockLength /\ Len(text) < MaxBlockLength
              THEN <<text>> ELSE <<>>)
             \o containerBlocks(ns, Tail(containers))

\* dts.forEach((dt, i) => { if (dds[i]) textBlocks.push(`${dt}: ${dds[i]}`) })
RECURSIVE pairBlocks(_, _, _, _)
pairBlocks(ns, dts, dds, i) ==
    IF i > Len(dts) THEN <<>>
    ELSE (IF i <= Len(dds)
          THEN <<Trim(textContent(ns, dts[i])) \o <<":", " ">> \o Trim(textContent(ns, dds[i]))>>
          ELSE <<>>)
         \o pairBlocks(ns, dts, dds, i + 1)

\* dlElements.forEach(dl => ...)
RECURSIVE listBlocks(_, _)
listBlocks(ns, dlElements) ==
    IF dlElements = <<>> THEN <<>>
    ELSE pairBlocks(ns, SelectAll("dt", ns, Descendants(ns, Head(dlElements))),
                    SelectAll("dd", ns, Descendants(ns, Head(dlElements))), 1)
         \o listBlocks(ns, Tail(dlElements))

\* extractRelevantText()
extractRelevantText(ns) ==
    containerBlocks(ns, SelectAll("data containers", ns, DocOrder(ns)))
    \o listBlocks(ns, SelectAll("dl", ns, DocOrder(ns)))

\* a text of n characters
Filler(n) == [i \in 1..n |-> "x"]

\* the texts of the scanned pages: none, short ones, and texts at both ends
\* of the band
GroupTexts == {<<>>, <<"I", "D">>, S_20635, <<"F", "u", "n", "d", "s", " ", "7">>,
               Filler(MaxBlockLength - 1), Filler(MaxBlockLength)}
TermTexts == {<<>>, <<"I", "D">>, <<"F", "u", "n", "d", "s">>}
ValueTexts == {<<>>, <<"7">>, S_20635, Filler(MaxBlockLength)}

\* a page with a form group holding one text, and a definition list of one
\* term and one value
PageRecord(group, term, value) ==
    << Elem("BODY", 0, <<2, 4>>),
       FormGroup(1, <<3>>),
       TextNode(2, group),
       Elem("DL", 1, <<5, 7>>),
       Elem("DT", 4, <<6>>),
       TextNode(5, term),
       Elem("DD", 4, <<8>>),
       TextNode(7, value) >>

ScannedPages ==
    {PageRecord(group, term, value) :
        group \in GroupTexts, term \in TermTexts, value \in ValueTexts}

\* scanCurrentPage(), as far as textBlocks goes
scanCurrentPage ==
    /\ textBlocks' = extractRelevantText(nodes)
    /\ UNCHANGED <<anonVars, csVars, panelVars, scannerVars, tooltipVars, loadingVars, pdfVars>>

\* the tab shows another record
PageChanges ==
    /\ \E page \in ScannedPages \ {nodes} : nodes' = page
    /\ UNCHANGED <<highlightedElements, tooltipElement, headStyles, timers, scrolled,
                   listeners, viewport, response, request, log>>
    /\ UNCHANGED <<anonVars, panelVars, restVars>>

InitSnapshot ==
    /\ AnonInit /\ NoPanel /\ RestIdle
    /\ nodes \in ScannedPages
    /\ highlightedElements = <<>>
    /\ tooltipElement = 0
    /\ headStyles = {}
    /\ timers = <<>>
    /\ scrolled = 0
    /\ listeners = <<>>
    /\ viewport = TopOfPage
    /\ response = NoResponse
    /\ request = NoRequest
    /\ log = <<>>

NextSnapshot ==
    \/ scanCurrentPage
    \/ PageChanges

SpecSnapshot == InitSnapshot /\ [][NextSnapshot]_vars

(***************************************************************************)
(* The position of the tooltip (showTooltip, content.js)                   *)
(*                                                                         *)
(* The inputs are whole pixels.  showTooltip halves rect.width and         *)
(* tooltipWidth, so the left coordinate is kept in half pixels: every      *)
(* term is doubled and no division is left.                                *)
(***************************************************************************)
\* the distance showTooltip keeps from the edges of the viewport, in pixels
TooltipMargin == 10

\* the width showTooltip assumes for a tooltip that has no layout box, in pixels
DefaultTooltipWidth == 320

\* max-width (320) plus the horizontal padding (2 x 16) of createTooltip
MaxOffsetWidth == 352

\* the left edges and the widths of the targets, the widths the tooltip is laid
\* out with, and the widths of the window
RectLefts == {0 - 40, 0, 5, 150, 700, 1000}
RectWidths == {1, 24, 300}
OffsetWidths == {0, 181, 320, MaxOffsetWidth}
InnerWidths == {320, 360, 800, 1024}

\* const tooltipWidth = tooltipElement.offsetWidth || 320
tooltipWidth(ow) == IF ow = 0 THEN DefaultTooltipWidth ELSE ow

\* the left coordinate showTooltip gives the tooltip, in half pixels:
\*   let left = rect.left + (rect.width / 2) - (tooltipWidth / 2);
\*   if (left < 10) left = 10;
\*   if (left + tooltipWidth > window.innerWidth - 10) left = window.innerWidth - tooltipWidth - 10;
showTooltipLeft(r, tw, iw) ==
    LET centred == 2 * r.left + r.width - tw
        clamped == IF centred < 2 * TooltipMargin THEN 2 * TooltipMargin ELSE centred
    IN  IF clamped + 2 * tw > 2 * (iw - TooltipMargin)
        THEN 2 * (iw - tw - TooltipMargin)
        ELSE clamped

\* showTooltip(element, content, status), as far as the horizontal position goes:
\* the target's box and the tooltip's laid-out width are read, left is set
PositionTooltip ==
    \E l \in RectLefts, wd \in RectWidths, ow \in OffsetWidths :
        /\ tipRect' = [left |-> l, width |-> wd]
        /\ offsetWidth' = ow
        /\ tipStyle' = [visible |-> TRUE,
                        left |-> showTooltipLeft([left |-> l, width |-> wd], tooltipWidth(ow), innerWidth)]
        /\ UNCHANGED <<innerWidth, anonVars, csVars, panelVars, scannerVars, snapshotVars, pdfVars,
                       loadingVars>>

\* hideTooltip(): the tooltip becomes invisible, left stays
HideTooltip ==
    /\ tipStyle.visible
    /\ tipStyle' = [tipStyle EXCEPT !.visible = FALSE]
    /\ UNCHANGED <<innerWidth, tipRect, offsetWidth, anonVars, csVars, panelVars, scannerVars,
                   snapshotVars, pdfVars, loadingVars>>

InitTooltip ==
    /\ AnonInit /\ NoPage /\ NoPanel /\ NoScanner /\ NoSnapshot /\ NoLoading /\ NoPdf
    /\ innerWidth \in InnerWidths
    /\ tipRect = NoRect
    /\ offsetWidth = 0
    /\ tipStyle = TooltipHidden

NextTooltip ==
    \/ PositionTooltip
    \/ HideTooltip

SpecTooltip == InitTooltip /\ [][NextTooltip]_vars

(***************************************************************************)
(* Claims on the redaction engine                                          *)
(***************************************************************************)

\* C5 -- Idempotent tokenization: within a session (no reset), every call of
\* createToken for the same original value returned the same token, whichever
\* category pattern or sensitive key asked for it.
C5_IdempotentTokenization ==
    \A p, q \in anonLog : p.original = q.original => p.token = q.token

\* the same original has been tokenized by two different categories
C5_Witness ==
    \E p, q \in anonLog : p.original = q.original /\ p.type # q.type

\* C6 -- Token injectivity: within a session, two different original values
\* never received the same token, and the reverse map is one-to-one.
C6_TokenInjectivity ==
    /\ \A p, q \in anonLog : p.token = q.token => p.original = q.original
    /\ \A o1, o2 \in DOMAIN reverseMap :
            reverseMap[o1] = reverseMap[o2] => o1 = o2

\* two different originals of the same category and one of another category
\* have been tokenized
C6_Witness ==
    \E p, q, r \in anonLog :
        /\ p.original # q.original /\ p.type = q.type
        /\ r.type # p.type /\ r.original \notin {p.original, q.original}

(***************************************************************************)
(* The page, as the host sees it                                           *)
(***************************************************************************)
\* the decorations on the page: the elements carrying the highlight class
Decorations(ns) == SelectAll(".oli-highlight", ns, DocOrder(ns))

Badges(ns) == SelectAll(".oli-badge", ns, DocOrder(ns))

\* the editable fields whose normalized live value is the key-value
FieldsWithValue(ns, keyValue) ==
    SelectSeq(SelectAll("input, select, textarea", ns, DocOrder(ns)),
              LAMBDA x : Trim(CollapseWs(ns[x].value)) = Trim(CollapseWs(keyValue)))

\* the document with the script's own tooltip element left aside
HostTree(ns, tip) == [ns EXCEPT ![tip] = BlankNode]

\* a message has just been received
Received == Len(log') = Len(log) + 1

\* C2: Reversibility -- when the page receives HIGHLIGHT_RISKS(F) and then
\* CLEAR_HIGHLIGHTS, every node has the attributes (style, class, data-*) and
\* the children it had on the page as it was loaded.
C2_Reversibility ==
    log = <<"HIGHLIGHT_RISKS", "CLEAR_HIGHLIGHTS">> =>
        \E page \in Pages :
            HostTree(nodes, tooltipElement) = HostTree(Loaded(page).nodes, Loaded(page).tip)

\* C3: Re-entrant apply -- from any reachable state, HIGHLIGHT_RISKS(F2) leaves
\* the same page tree (body and the styles in head) and the same decoration
\* registry as CLEAR_HIGHLIGHTS followed by HIGHLIGHT_RISKS(F2).
C3_ReentrantApply ==
    [][(Received /\ request'.action = "HIGHLIGHT_RISKS") =>
          LET viaClear == onMessage(CLEAR_HIGHLIGHTS(W).w, request').w
          IN  /\ nodes' = viaClear.nodes
              /\ headStyles' = viaClear.head
              /\ highlightedElements' = viaClear.hl]_vars

\* C7: Locator tiering -- when exactly one editable field has the fragment's
\* key-value "20635" as its live value, locating "Field [Funds]: 20635" returns
\* that field, whatever table cells, value containers or text nodes hold the
\* same text.
C7_LocatorTiering ==
    LET keyValue == extractKeyValue(FragFunds)
        fields == FieldsWithValue(nodes, keyValue)
    IN  Len(fields) = 1 =>
            findBestMatchElement(nodes, FragFunds, keyValue) = [el |-> fields[1], type |-> "input"]

\* C7 witness: the funds field has been decorated for "Field [Funds]: 20635"
\* on the page whose table cell holds "20635" too, and the cell is untouched.
C7_Witness ==
    /\ request.action = "HIGHLIGHT_RISKS"
    /\ request.highlights = <<[text |-> FragFunds, status |-> "CRITIQUE"]>>
    /\ Len(highlightedElements) = 1
    /\ nodes[highlightedElements[1]].id = S_funds
    /\ \E x \in 1..Len(nodes) :
          /\ nodes[x].tag = "TD" /\ textContent(nodes, x) = S_20635
          /\ ~HasClass(nodes[x], "oli-highlight")

\* C8: Graceful miss -- a SCROLL_TO_TEXT whose fragment is found nowhere
\* answers not-found and leaves the page tree, the inline styles of decorated
\* elements included, and the decoration registry as they were.
C8_GracefulMiss ==
    [][(Received /\ request'.action = "SCROLL_TO_TEXT" /\ ~response'.success) =>
          /\ nodes' = nodes
          /\ highlightedElements' = highlightedElements]_vars

\* C9: Critical scenario -- the page has a balance field with live value
\* "5000"; after HIGHLIGHT_RISKS with the one critical finding "5 000 $" there
\* is exactly one decoration, its text or value contains "5000" or "5 000 $",
\* and a badge with the critical marker is present.
C9_CriticalScenario ==
    (/\ log = <<"HIGHLIGHT_RISKS">>
     /\ request.highlights = <<[text |-> FragMoney, status |-> "CRITIQUE"]>>
     /\ FieldsWithValue(nodes, S_5000) # <<>>)
    => /\ Len(Decorations(nodes)) = 1
       /\ Len(highlightedElements) = 1
       /\ LET t == ValueOrText(nodes, Decorations(nodes)[1])
          IN  Includes(t, S_5000) \/ Includes(t, FragMoney)
       /\ \E b \in Range(Badges(nodes)) : textContent(nodes, b) = <<"!">>

\* C12: Clear removes everything -- after CLEAR_HIGHLIGHTS, from any reachable
\* state, the decoration registry is empty, no element of the page carries the
\* highlight class and no badge is left in the document, neither as a child of a
\* decorated element nor as a child of the body.
C12_ClearRemovesAll ==
    [][(Received /\ request'.action = "CLEAR_HIGHLIGHTS") =>
          /\ highlightedElements' = <<>>
          /\ Decorations(nodes') = <<>>
          /\ Badges(nodes') = <<>>]_vars

\* C12 witness: CLEAR_HIGHLIGHTS was answered after a HIGHLIGHT_RISKS that had
\* decorated a field in place (the field keeps the style attribute it got) and
\* had hung its badge on the body.
C12_Witness ==
    /\ log = <<"HIGHLIGHT_RISKS", "CLEAR_HIGHLIGHTS">>
    /\ response.status = "Cleared"
    /\ \E x \in 1..Len(nodes) :
          nodes[x].tag = "INPUT" /\ nodes[x].hasStyle /\ nodes[x].style = EmptyStyle

\* the style attributes of the elements of the page in document order, the
\* script's tooltip left aside
RECURSIVE StylesOf(_, _, _)
StylesOf(ns, ids, tip) ==
    IF ids = <<>> THEN <<>>
    ELSE (IF ns[Head(ids)].kind = "elem" /\ Head(ids) # tip
          THEN <<[tag |-> ns[Head(ids)].tag, hasStyle |-> ns[Head(ids)].hasStyle,
                  style |-> ns[Head(ids)].style]>>
          ELSE <<>>) \o StylesOf(ns, Tail(ids), tip)

\* C13: Style restoration -- when the page as loaded receives HIGHLIGHT_RISKS
\* and then CLEAR_HIGHLIGHTS, every element has after the clear exactly the
\* style string it had before it was decorated, and an element that had no
\* style attribute has none.
C13_StyleRestoration ==
    [][(Received /\ log = <<"HIGHLIGHT_RISKS">> /\ request'.action = "CLEAR_HIGHLIGHTS") =>
          \E page \in Pages :
              StylesOf(nodes', DocOrder(nodes'), tooltipElement')
                  = StylesOf(Loaded(page).nodes, DocOrder(Loaded(page).nodes),
                             Loaded(page).tip)]_vars

\* the listeners of one event type that are registered on the window
WindowListeners(ls, type) == SelectSeq(ls, LAMBDA l : l.onWindow /\ l.type = type)

\* the badges hung on the body for elements that cannot hold a child
OutOfFlowBadges(ns) == SelectSeq(Badges(ns), LAMBDA b : ns[b].parent = Body)

\* C14: Listener detachment -- after a clear no scroll, resize or hover
\* listener registered for a decorated element is still registered, and at any
\* time the live scroll listeners and the live resize listeners are as many as
\* the out-of-flow badges in the document.
C14_ListenerDetachment ==
    /\ (log # <<>> /\ log[Len(log)] = "CLEAR_HIGHLIGHTS") => listeners = <<>>
    /\ Len(WindowListeners(listeners, "scroll")) = Len(OutOfFlowBadges(nodes))
    /\ Len(WindowListeners(listeners, "resize")) = Len(OutOfFlowBadges(nodes))

\* the fragment of the finding is located nowhere on the page of w
Missed(w, finding) ==
    \/ finding.text = Null
    \/ ~findAndScrollToText(w, finding.text, finding.status, "Risk element detected", FALSE).found

\* C15: Anchor-miss is not fatal -- when the first of two findings of a
\* HIGHLIGHT_RISKS cannot be located (its fragment is nowhere on the page, or
\* it has no fragment), the second one is attempted all the same: the page and
\* the registry are those the message with the second finding alone leaves.
C15_AnchorMissNotFatal ==
    [][(/\ Received
        /\ request'.action = "HIGHLIGHT_RISKS"
        /\ request'.data
        /\ Len(request'.highlights) = 2
        /\ Missed(cleanupHighlights(W), request'.highlights[1]))
       => LET alone == HIGHLIGHT_RISKS(W, Tail(request'.highlights),
                                       request'.overallStatus).w
          IN  /\ nodes' = alone.nodes
              /\ highlightedElements' = alone.hl]_vars

\* C16: Every request is acknowledged -- whatever message the listener
\* receives (SCAN_PAGE, HIGHLIGHT_RISKS, CLEAR_HIGHLIGHTS, SCROLL_TO_TEXT; with
\* or without data, with an empty list of findings, with a finding whose text
\* is null), the handler sends a response and does not throw.
C16_AlwaysAcknowledged ==
    [][Received => response' # Thrown]_vars

\* the decorations made in place, by highlightExistingElement
InPlace(ns) == SelectSeq(Decorations(ns), LAMBDA x : "oliOriginalStyle" \in ns[x].data)

\* the badges that are children of el and positioned absolutely
ChildBadges(ns, el) ==
    SelectSeq(ns[el].kids, LAMBDA b : /\ ns[b].kind = "elem"
                                      /\ HasClass(ns[b], "oli-badge")
                                      /\ ns[b].style.props["position"] = "absolute")

\* the first position of the badge is still to be set, at the next frame
FramePending(ts, b) == \E k \in 1..Len(ts) : ts[k].kind = "frame" /\ ts[k].badge = b

\* the window has a listener of that type that repositions badge b from el
Repositions(ls, type, el, b) ==
    \E k \in 1..Len(ls) :
        ls[k].onWindow /\ ls[k].type = type /\ ls[k].target = el /\ ls[k].badge = b

\* b is the out-of-flow badge of el: on the body, fixed, placed from the box el
\* has now, and with a scroll and a resize listener that keep it there
OutOfFlowBadgeOf(el, b) ==
    /\ nodes[b].parent = Body
    /\ nodes[b].dFor = IdOrName(nodes[el])
    /\ nodes[b].style.props["position"] = "fixed"
    /\ Repositions(listeners, "scroll", el, b)
    /\ Repositions(listeners, "resize", el, b)
    /\ \/ FramePending(timers, b)
       \/ nodes[b].at = BadgePos(getBoundingClientRect(W, el))

\* C19: Badge placement -- every element decorated in place has a badge as its
\* child, positioned absolutely, if and only if its tag can hold children; an
\* element that cannot (input, select, textarea and the void tags) has its
\* badge on the body, fixed, placed from the bounding box the element has now:
\* the badge follows every scroll and every resize of the window.
C19_BadgePlacement ==
    \A el \in Range(InPlace(nodes)) :
        /\ (ChildBadges(nodes, el) # <<>>) <=> (nodes[el].tag \notin VoidTags)
        /\ nodes[el].tag \in VoidTags =>
              \E b \in Range(OutOfFlowBadges(nodes)) : OutOfFlowBadgeOf(el, b)

\* the timer that fires next is the tooltip timer of an element without a box
ZeroBoxTooltipDue ==
    \E k \in 1..Len(timers) :
        /\ timers[k].left = 0
        /\ \A j \in 1..(k - 1) : timers[j].left # 0
        /\ timers[k].kind = "tooltip"
        /\ ~HasBox(W, timers[k].el)

\* the out-of-flow badges of el: on the body, tied to el by a window listener
BadgesFor(ns, ls, el) ==
    SelectSeq(OutOfFlowBadges(ns), LAMBDA b : Repositions(ls, "scroll", el, b))

\* every out-of-flow badge whose element has no box, once its first animation
\* frame has run, is hidden (display: none) and has no position
ZeroBoxBadgesHidden ==
    \A el \in Range(InPlace(nodes)) :
        ~HasBox(W, el) =>
            \A b \in Range(BadgesFor(nodes, listeners, el)) :
                ~FramePending(timers, b) =>
                    /\ nodes[b].style.props["display"] = "none"
                    /\ ~nodes[b].at.set

\* C21: Geometry failure -- when the bounding box of the target has no width
\* or no height, showTooltip leaves the tooltip's style (position and
\* visibility) as it was, and updateBadgePosition hides the out-of-flow badge
\* of that element instead of positioning it.
C21_GeometryFailure ==
    [][/\ (ZeroBoxTooltipDue /\ TimerFires) =>
              nodes'[tooltipElement'].style = nodes[tooltipElement].style
       /\ ZeroBoxBadgesHidden']_vars

\* C21 witness: the field without a box is decorated, its badge has been
\* hidden by updateBadgePosition, and the tooltip timer of a focus on it has
\* fired (the hide timer is pending) without showing the tooltip
C21_Witness ==
    \E el \in Range(InPlace(nodes)) :
        /\ ~HasBox(W, el)
        /\ scrolled = el
        /\ \E b \in Range(BadgesFor(nodes, listeners, el)) :
              nodes[b].style.props["display"] = "none"
        /\ \E k \in 1..Len(timers) : timers[k].kind = "hide"
        /\ nodes[tooltipElement].style.base = "tooltip"

\* the elements of the document with that id
WithId(ns, id) == SelectSeq(DocOrder(ns), LAMBDA x : ns[x].kind = "elem" /\ ns[x].id = id)

\* the tooltip is shown
TooltipVisible(ns, tip) == tip # 0 /\ Attached(ns, tip) /\ ns[tip].style.base = "tooltip visible"

\* C22: Tooltip and floating indicator are singletons destroyed on clear -- in
\* every state the document holds at most one tooltip element and at most one
\* floating indicator, and while CLEAR_HIGHLIGHTS is the last message received
\* the document holds no floating indicator and no visible tooltip.
C22_SingletonsDestroyedOnClear ==
    /\ Len(WithId(nodes, <<"oli-tooltip">>)) <= 1
    /\ Len(WithId(nodes, <<"oli-indicator">>)) <= 1
    /\ (log # <<>> /\ log[Len(log)] = "CLEAR_HIGHLIGHTS") =>
          /\ getIndicator(nodes) = 0
          /\ ~TooltipVisible(nodes, tooltipElement)

\* a hide timer whose tooltip was shown is pending
ShownHidePending(ts) == \E k \in 1..Len(ts) : ts[k].kind = "hide" /\ ts[k].shown

\* every message received so far is a focus request
OnlyFocus == \A i \in 1..Len(log) : log[i] = "SCROLL_TO_TEXT"

\* C23: Focus tooltip auto-expiry -- a tooltip that a focus (SCROLL_TO_TEXT)
\* has shown stays visible for the full display duration (3000 ms), whatever
\* timers of earlier focus calls are pending: the tooltip is never hidden
\* while the hide timer of a later show is still running.
C23_TooltipFullDuration ==
    [][(OnlyFocus /\ TooltipVisible(nodes, tooltipElement)
                  /\ ~TooltipVisible(nodes', tooltipElement'))
          => ~ShownHidePending(timers')]_vars

\* a node without its place in the tree
Unplaced(n) == [n EXCEPT !.parent = 0, !.kids = <<>>]

\* how many nodes of the document are the node n
Copies(ns, n) == Len(SelectSeq(DocOrder(ns), LAMBDA x : Unplaced(ns[x]) = Unplaced(n)))

\* C26: Clear is a pure function of the decoration registry -- CLEAR_HIGHLIGHTS
\* leaves every node of the host page that the engine has not decorated as it
\* is: each node of the loaded page that is in the document unchanged before
\* the clear is there unchanged after it, a host element with the class
\* oli-badge included.
C26_ClearLeavesHostNodes ==
    [][(Received /\ request'.action = "CLEAR_HIGHLIGHTS") =>
          \A n \in Range(Loaded(PageHostBadge).nodes) :
              Copies(nodes', n) >= Copies(nodes, n)]_vars

(***************************************************************************)
(* The side panel and the backend                                          *)
(***************************************************************************)
\* an anonymizer as constructed
NewAnonymizer == [rev |-> <<>>, tok |-> <<>>, ctr |-> 0, log |-> {}]

\* the redaction engine finds nothing to replace in the text
Redacted(text) == anonymizeString(NewAnonymizer, text).text = text

\* C1: every payload scanPage or analyzePDF sends to the backend has been
\* passed through the redaction engine first: the text of the request is one
\* the engine leaves as it is (its output is a fixed point of it, C5).
C1_RedactedBeforeSend ==
    sent.fn \in {"scanPage", "analyzePDF"} => Redacted(sent.text)

\* no handler of the panel is waiting and no message to the tab is pending
Quiet == pc = "idle" /\ outbox = <<>>

\* the decorations the apply operation made, as (field id, severity) pairs
Anchored(ns) ==
    { <<ns[x].id, ns[x].dStatus>> :
        x \in { y \in Range(Decorations(ns)) : ns[y].dMessage = "Risk element detected" } }

\* C4: no stale decorations across scan cycles -- once a scan cycle has
\* completed, the decorations on the page are those of the findings of that
\* cycle: what applying them to the cleared page gives.
C4_NoStaleDecorations ==
    (Quiet /\ result.present /\ result.from = "scanPage") =>
        Anchored(nodes) =
            Anchored(HIGHLIGHT_RISKS(CLEAR_HIGHLIGHTS(W).w, highlightTexts(result.checks),
                                     result.overall_status).w.nodes)

\* C10: a finding with a null fragment or of ok severity is never anchored --
\* when the list of findings of the completed cycle is made only of such
\* findings, the page carries no decoration of the apply operation.
C10_NullFragmentNeverAnchored ==
    (Quiet /\ result.present /\ result.checks # <<>>
       /\ \A k \in 1..Len(result.checks) :
            result.checks[k].highlight_text = <<>> \/ result.checks[k].status = "CONFORME")
    => Anchored(nodes) = {}

(***************************************************************************)
(* Claims on the DOM scanner                                               *)
(***************************************************************************)

\* C11 -- Debounced re-scan: when BurstSize (10) qualifying mutations were
\* delivered within one debounce window, exactly one change notification
\* ('oli-dom-change') was dispatched for the burst once the window has closed.
C11_DebouncedRescan ==
    (burst = BurstSize /\ windowLeft = 0) => domChanges = 1

\* C17: Cancellation by clear -- once "New Analysis" has reset the panel (no
\* result, no error, nothing loading) and every deferred message has gone out,
\* the page carries no decoration of the apply operation: none of an analysis
\* completed before the reset is applied after it, however the 300 ms timer of
\* HIGHLIGHT_RISKS and the reset interleave.
C17_CancellationByClear ==
    (Quiet /\ ~result.present /\ ~error /\ ~loading) => Anchored(nodes) = {}

\* C18: Extraction failure is never fatal -- a step in which the extractor
\* reports failure for a PDF, be it scanPage on a PDF page (plain or opened in
\* Adobe Acrobat) or analyzePDF on a detected PDF, goes on to the request to
\* the backend and does not end in the error state.
C18_ExtractionFailureNotFatal ==
    [][((\E tabKind \in {"pdf", "adobe"}, pdfText \in PdfTexts :
            scanPage(tabKind, FALSE, pdfText))
        \/ (\E pdfText \in PdfTexts : analyzePDF(FALSE, pdfText)))
       => (pc' \in {"scanPage", "analyzePDF"} /\ ~error')]_vars

\* C20: Tooltip horizontal clamping -- whatever the bounding box of the target,
\* the width of the tooltip and the width of the viewport, the left coordinate
\* showTooltip has set keeps the tooltip inside the viewport:
\* left >= 10 and left + tooltipWidth <= innerWidth - 10 (here in half pixels).
C20_TooltipClamped ==
    tipStyle.visible =>
        /\ tipStyle.left >= 2 * TooltipMargin
        /\ tipStyle.left + 2 * tooltipWidth(offsetWidth) <= 2 * (innerWidth - TooltipMargin)

\* a node of a record is form/table-like
FormLike(node) == node.nodeType = 1 /\ node.tagName \in relevantTags

\* the record is an addition, a removal or an attribute change that affects a
\* form/table-like node
AffectsFormLike(mutation) ==
    IF mutation.type = "childList"
    THEN \E node \in Range(mutation.addedNodes) \cup Range(mutation.removedNodes) : FormLike(node)
    ELSE FormLike(mutation.target)

\* the records of a batch that affect a form/table-like node
RECURSIVE Affecting(_)
Affecting(mutations) ==
    IF mutations = <<>> THEN 0
    ELSE (IF AffectsFormLike(Head(mutations)) THEN 1 ELSE 0) + Affecting(Tail(mutations))

\* C24: Mutation filter -- the observer callback raises one change
\* notification for every record of its batch that is an addition, a removal
\* or an attribute change affecting a form/table-like node (INPUT, SELECT,
\* TEXTAREA, FORM, TABLE), and none for any other record.
C24_MutationFilter ==
    [][\A mutations \in Batches :
          (mutationObserver /\ Delivered(mutations)) =>
              domChanges' = Affecting(mutations)
                            + (IF windowLeft = 0 /\ observerCallback(mutations, 0) > 0
                               THEN 0 ELSE domChanges)]_vars

\* the engine's state after the step
AnonStateAfter == [rev |-> reverseMap', tok |-> tokenMap', ctr |-> tokenCounter', log |-> anonLog']

\* out is the record in redacted by the rule, in engine state a: entry by
\* entry the key is kept; a string under a sensitive key is one token, the one
\* the engine holds for the whole string; a nested record is redacted by the
\* same rule; any other string is what the pattern scan makes of it; any
\* other value is the same value
RECURSIVE RedactedByRule(_, _, _)
RedactedByRule(a, in, out) ==
    /\ Len(out) = Len(in)
    /\ \A k \in 1..Len(in) :
          LET key == in[k][1]
              v == in[k][2]
              o == out[k][2]
          IN  /\ out[k][1] = key
              /\ CASE v.t = "str" /\ isSensitive(key) ->
                        /\ v.s \in DOMAIN a.rev
                        /\ o = StrV(<<a.rev[v.s]>>)
                        /\ a.tok[a.rev[v.s]].original = v.s
                        /\ a.rev[v.s] \notin Range(v.s)
                   [] v.t = "obj" -> o.t = "obj" /\ RedactedByRule(a, v.o, o.o)
                   [] v.t = "str" -> o = StrV(anonymizeString(a, v.s).text)
                   [] OTHER -> o = v

\* C25: Record redaction -- anonymizeObject returns the record with, at every
\* nesting depth, each string under a sensitive key replaced as a whole by its
\* token, each nested record redacted by the same rule, each other string
\* pattern-scanned and each non-string scalar unchanged.
C25_RecordRedaction ==
    [][AnonymizeObjectCall => RedactedByRule(AnonStateAfter, anonOut'.in, anonOut'.out)]_vars

\* C25 witness: the last record redacted holds a nested record with a string
\* under a sensitive key, and that string is not in the result
C25_Witness ==
    \E k \in 1..Len(anonOut.in) :
        /\ anonOut.in[k][2].t = "obj"
        /\ \E j \in 1..Len(anonOut.in[k][2].o) :
              /\ isSensitive(anonOut.in[k][2].o[j][1])
              /\ anonOut.in[k][2].o[j][2].t = "str"
              /\ anonOut.out[k][2].o[j][2].t = "str"
              /\ anonOut.out[k][2].o[j][2].s # anonOut.in[k][2].o[j][2].s

\* the redaction engine holds no token and counts from 0
TokenMapEmpty(tok, rev, ctr) == tok = <<>> /\ rev = <<>> /\ ctr = 0

\* C27: Session reset -- a reset of the redaction engine leaves the token
\* map, the reverse map and the counter empty (the next token gets number 1),
\* and the "New Analysis" reset of the panel leaves both the redaction
\* engine's maps and the decoration registry empty.
C27_SessionReset ==
    [][/\ reset => TokenMapEmpty(tokenMap', reverseMap', tokenCounter')
       /\ resetAnalysis => /\ TokenMapEmpty(tokenMap', reverseMap', tokenCounter')
                           /\ highlightedElements' = <<>>]_vars

\* the part of an input's score that comes from the label hint
LabelScore(ns, input, keyValue, targetLabel) ==
    InputScore(ns, input, keyValue, targetLabel)
        - (IF ValueMatches(ns[input].value, keyValue) THEN 10 ELSE 0)

\* the field's whitespace-normalized value equals or contains the key-value
ValueHolds(value, keyValue) ==
    Includes(Trim(CollapseWs(value)), Trim(CollapseWs(keyValue)))

\* C28: Tier-1 acceptance -- for every fragment, a field that locate returns
\* while its label score alone is below the minimum (so on the strength of
\* its value) has a normalized value that equals or contains the fragment's
\* key-value; a field whose value is only a proper substring of the key-value
\* is not returned.
C28_Tier1Acceptance ==
    \A f \in Findings :
        LET keyValue == extractKeyValue(f.text)
            r == findBestMatchElement(nodes, f.text, keyValue)
        IN  (/\ r.type = "input"
             /\ LabelScore(nodes, r.el, keyValue, TargetLabel(f.text)) < MinInputScore)
            => ValueHolds(nodes[r.el].value, keyValue)

\* a and b are unrelated: neither contains the other, or a is empty
UnrelatedTo(a, b) == a = <<>> \/ (~Includes(a, b) /\ ~Includes(b, a))

\* C29: Tier-2 minimum score -- for every fragment with a label hint, locate
\* never returns a field whose value does not match the key-value and whose
\* name, id and label text are all unrelated to the hinted label, an empty
\* name or id included.
C29_Tier2MinimumScore ==
    \A f \in Findings :
        LET keyValue == extractKeyValue(f.text)
            targetLabel == TargetLabel(f.text)
            r == findBestMatchElement(nodes, f.text, keyValue)
        IN  (targetLabel # <<>> /\ r.type = "input") =>
              ~(/\ ~ValueMatches(nodes[r.el].value, keyValue)
                /\ UnrelatedTo(ToLower(nodes[r.el].name), ToLower(targetLabel))
                /\ UnrelatedTo(ToLower(nodes[r.el].id), ToLower(targetLabel))
                /\ UnrelatedTo(ToLower(LabelTextOf(nodes, r.el)), ToLower(targetLabel)))

\* the panel hands a message with the given action to the tab: at once, or
\* through the 300 ms timer that sends it
PanelSends(action) ==
    \/ /\ Len(outbox') = Len(outbox) + 1
       /\ outbox'[Len(outbox')].action = action
    \/ /\ Received
       /\ outbox' = outbox
       /\ request'.action = action

\* C30: PDF highlighting is disabled -- while the analysed document is a PDF
\* (the scan found the active tab to be a PDF page, or the analysis was
\* started from a detected PDF), no step of the panel sends HIGHLIGHT_RISKS
\* or SCROLL_TO_TEXT to the page.
C30_PdfHighlightingDisabled ==
    [][(PanelSends("HIGHLIGHT_RISKS") \/ PanelSends("SCROLL_TO_TEXT")) => ~currentPdfUrl]_vars

\* the pending timers of scrollToAndPulse: the timed tooltip and the end of
\* the pulse
FocusTimers(ts) == SelectSeq(ts, LAMBDA t : t.kind \in {"tooltip", "unfocus"})

\* the elements that carry the class of the pulse animation
Pulsing(ns) == SelectAll(".oli-focus-highlight", ns, DocOrder(ns))

\* C31: Applying findings does not move the viewport -- a HIGHLIGHT_RISKS,
\* whatever tier locates its findings, starts no timed tooltip, leaves no
\* decorated element with the pulse class and, if the window had not been
\* scrolled to an element before, scrolls it to none.
C31_ApplyDoesNotScroll ==
    [][(Received /\ request'.action = "HIGHLIGHT_RISKS") =>
          /\ Len(FocusTimers(timers')) = Len(FocusTimers(timers))
          /\ \A el \in Range(highlightedElements') : el \notin Range(Pulsing(nodes'))
          /\ scrolled = 0 => scrolled' = 0]_vars

\* C33: The count acknowledged by apply -- the response to a HIGHLIGHT_RISKS
\* that was answered carries as count the number of decorations created, which
\* is the size of the decoration registry.
C33_CountIsDecorations ==
    [][(Received /\ request'.action = "HIGHLIGHT_RISKS" /\ response' # Thrown) =>
          /\ response'.count = Len(Decorations(nodes'))
          /\ response'.count = Len(highlightedElements')]_vars

\* the number of places of the registry that hold el
Occurrences(hl, el) == Cardinality({k \in 1..Len(hl) : hl[k] = el})

\* the badges of a decorated element: its child badges, and for an element
\* that cannot hold children the badges on the body made for it
BadgesOf(ns, el) ==
    Len(SelectSeq(ns[el].kids, LAMBDA b : ns[b].kind = "elem" /\ HasClass(ns[b], "oli-badge")))
    + (IF ns[el].tag \in VoidTags
       THEN Len(SelectSeq(OutOfFlowBadges(ns), LAMBDA b : ns[b].dFor = IdOrName(ns[el])))
       ELSE 0)

\* C34: At most one badge per decorated element -- in every state each
\* decorated element has at most one badge and is at most once in the
\* decoration registry, void controls included.
C34_OneBadgePerElement ==
    \A el \in Range(Decorations(nodes)) :
        /\ BadgesOf(nodes, el) <= 1
        /\ Occurrences(highlightedElements, el) <= 1

\* C32: Length band of free-text blocks -- every entry of textBlocks of a
\* snapshot is longer than 5 and shorter than 1000 characters, whether a data
\* container or a pair of a definition list produced it.
C32_LengthBand ==
    \A k \in 1..Len(textBlocks) :
        Len(textBlocks[k]) > MinBlockLength /\ Len(textBlocks[k]) < MaxBlockLength

\* content.js is run in a tab that has run it before: the highlight step of a
\* scan (the only step that puts a message in the outbox of such a tab)
Reinjected == injected /\ Len(outbox') = Len(outbox) + 1

\* C35: Idempotent injection -- once the content script has been injected,
\* however often, the tab has exactly one message listener and the document
\* one tooltip element, the one the script holds; and an injection into a tab
\* that has the script leaves the decoration registry as it was.
C35_IdempotentInjection ==
    [][/\ injected' =>
            /\ onMessageListeners' = 1
            /\ WithId(nodes', <<"oli-tooltip">>) = <<tooltipElement'>>
       /\ Reinjected => highlightedElements' = highlightedElements]_vars

\* C35 witness: two scans have each injected the script and delivered their
\* findings, and the decoration of the second one is registered.
C35_Witness ==
    /\ log = <<"HIGHLIGHT_RISKS", "HIGHLIGHT_RISKS">>
    /\ cycles = 2
    /\ injected
    /\ onMessageListeners = 1
    /\ highlightedElements # <<>>

\* the fields of the form
FieldNames == {t.name : t \in {e \in EventTargets : isFormElement(e)}}

\* C36: No field change is lost by the input debounce -- whenever a field has
\* received an input event, an oli-field-change event for that field (it
\* carries the value the field has then) is dispatched later, also when input
\* events on two fields are less than 500 ms apart.
C36_NoFieldChangeLost ==
    \A f \in FieldNames : (f \in awaited) ~> (f \notin awaited)

\* destroy() has been called on a scanner that was initialized
Destroyed == formListeners /\ ~mutationObserver

\* C37: After destroy() -- no step dispatches an oli-dom-change or an
\* oli-field-change event, whatever events the page raises, and no debounce
\* timer of the scanner is pending.
C37_QuietAfterDestroy ==
    [][Destroyed => /\ domChanges' = domChanges
                    /\ fieldChanges' = fieldChanges
                    /\ ~debounceTimeout'.pending]_vars

\* C38: Panel loading state -- every step in which a scanPage or analyzePDF
\* run ends leaves loading = false and loadingMessage = '', and after every
\* step, a firing of a progressive-message timer included, loadingMessage is
\* empty while nothing is loading.
C38_LoadingState ==
    [][/\ (pc # "idle" /\ pc' = "idle") => (~loading' /\ loadingMessage' = "")
       /\ ~loading' => loadingMessage' = ""]_vars

\* The PDF handler on its own: no page, no panel.
InitPdf == AnonInit /\ NoPage /\ NoPanel /\ RestIdle

NextPdf ==
    \/ extractFromUrl
    \/ extractFromBuffer

SpecPdf == InitPdf /\ [][NextPdf]_vars

\* the page can be extracted: getPage and getTextContent succeed
Extractable(page) == page.getPage /\ page.getTextContent

\* the texts of the entries of content whose page can be extracted
RECURSIVE ExtractedTexts(_, _, _)
ExtractedTexts(pdf, content, i) ==
    IF i > Len(content) THEN <<>>
    ELSE (IF i <= Len(pdf) /\ Extractable(pdf[i]) THEN <<content[i].text>> ELSE <<>>)
         \o ExtractedTexts(pdf, content, i + 1)

\* C39: PDF extraction result shape -- an extraction always returns a result;
\* when the document cannot be loaded the result has success = false,
\* totalPages = 0, no content and an empty fullText; when it loads, content
\* has one entry for each page 1..totalPages in page order, failed pages
\* included, and fullText is the texts of the extracted pages in page order,
\* joined by blank lines.
C39_ExtractionResultShape ==
    pdfCall.fn # "" =>
        LET r == pdfCall.result
        IN  IF pdfCall.loading # "loads"
            THEN /\ ~r.success
                 /\ r.totalPages = 0
                 /\ r.content = <<>>
                 /\ r.fullText = <<>>
            ELSE /\ r.success
                 /\ r.totalPages = Len(pdfCall.pdf)
                 /\ Len(r.content) = r.totalPages
                 /\ \A i \in 1..Len(r.content) : r.content[i].page = i
                 /\ r.fullText = Join(ExtractedTexts(pdfCall.pdf, r.content, 1), <<"\n", "\n">>)

\* C39 witness: a document of two pages was loaded from a URL, its first page
\* failed and its second page was extracted.
C39_Witness ==
    /\ pdfCall.fn = "extractFromUrl"
    /\ pdfCall.loading = "loads"
    /\ Len(pdfCall.pdf) = 2
    /\ ~Extractable(pdfCall.pdf[1])
    /\ Extractable(pdfCall.pdf[2])
    /\ pdfCall.result.content[1].text = S_ExtractionFailed
    /\ pdfCall.result.fullText = <<"N", "a", "m", "e", ":", " ", "J", "e", "a", "n">>

====
